---- MODULE Spec2Model ----
(***************************************************************************)
(* monres: metric history buffer, alert rule evaluation and the alerter's  *)
(* fire/resolve state machine, with the main loop that drives them.        *)
(*                                                                         *)
(* Time is an integer number of milliseconds.  Metric values are small     *)
(* naturals; an aggregated value is an exact fraction <<num, den>> in      *)
(* lowest terms.                                                           *)
(***************************************************************************)
EXTENDS Integers, Sequences, FiniteSets, TLC

VARIABLES
    buffers,          \* MetricHistoryBuffer.buffers: metric name -> sequence of DataPoint
    maxDataPoints,    \* MetricHistoryBuffer.maxDataPoints
    ctorMaxAge,       \* the maxAge NewMetricHistoryBuffer was called with
    ctorInterval,     \* the collectionInterval NewMetricHistoryBuffer was called with
    appended,         \* history: every DataPoint ever appended, per metric, in call order
    rules,            \* Alerter.rules: the AlertRuleConfig part of each rule, in declaration order
    ruleState,        \* Alerter.rules[i].State
    events,           \* the events slice built by the latest CheckAndNotify
    sent,             \* the notifier Send calls made by the latest CheckAndNotify, in order
    clock,            \* time.Now() as last read by the main loop
    pc,               \* position of main: "start", "loop", "done" ("buffer": main is not running)
    ticks,            \* history: number of ticker ticks handled so far
    lastType,         \* history: type of the latest event emitted per rule ("NONE" before any)
    prevType,         \* history: type of the event emitted before lastType per rule
    lastCycle,        \* history: per rule, how the latest CheckAndNotify treated it, what it read,
                      \* and whether the rule has been evaluated since the process started
    prevStats,        \* rate calculation: the prev argument (the two counters of a stats struct)
    currStats,        \* rate calculation: the curr argument
    elapsedMs,        \* rate calculation: elapsedSeconds, in milliseconds
    netRates,         \* {what CalculateNetworkIORates returned}, {} before the call
    diskRates,        \* {what CalculateDiskIORates returned}, {} before the call
    activeStates,     \* {what the latest GetCurrentActiveAlerts call returned}, {} before any
    activeAtExit,     \* history: the names of the rules that were active when the process last stopped
    restarts,         \* history: number of times the process was started again
    cfgAlert,         \* configuration file: one entry of alerts, as written
    loadResult,       \* what LoadConfig made of cfgAlert (status "pending" before the call)
    evalPoints,       \* the points of the direct Evaluate call
    evalResult,       \* {what that Evaluate call returned}, {} before the call
    mu,               \* MetricHistoryBuffer's RWMutex: the goroutines holding it for writing, for reading
    alerterMu,        \* Alerter's mutex a.mu: the goroutines holding it
    proc,             \* per goroutine using the buffer or the alerter: its calls still to make, its position in the
                      \* current call, what it has read, and what its latest read returned
    shutdownSignal,   \* number of signals waiting in the shutdownSignal channel (capacity 1)
    tickState,        \* the tick main is handling: the collected map, the names still to append,
                      \* and whether a signal arrived while it was being handled
    gc,               \* GlobalCollector: lastDiskStats, lastNetworkStats, lastCollectTime
    prevCPU,          \* package collector: <<prevCPUTotal, prevCPUIdle>>
    allMetrics,       \* what the latest CollectAll returned
    snapTimes,        \* history: when the snapshots in lastDiskStats and lastNetworkStats were read
    instances         \* per GlobalCollector instance: lastCollectTime, and as history the CPU counters
                      \* its own latest collection read; with the instance that collected last

vars == <<buffers, maxDataPoints, ctorMaxAge, ctorInterval, appended, rules, ruleState,
          events, sent, clock, pc, ticks, lastType, prevType, lastCycle,
          prevStats, currStats, elapsedMs, netRates, diskRates,
          activeStates, activeAtExit, restarts,
          cfgAlert, loadResult, evalPoints, evalResult,
          mu, proc, shutdownSignal, tickState, gc, prevCPU, allMetrics, snapTimes,
          alerterMu, instances>>

bufferVars == <<buffers, maxDataPoints, ctorMaxAge, ctorInterval, appended>>
alerterVars == <<rules, ruleState, events, sent, clock, pc, ticks, lastType, prevType, lastCycle>>
rateVars == <<prevStats, currStats, elapsedMs, netRates, diskRates>>
serviceVars == <<activeStates, activeAtExit, restarts>>
configVars == <<cfgAlert, loadResult, evalPoints, evalResult>>
lockVars == <<mu, proc, alerterMu>>
signalVars == <<shutdownSignal, tickState>>
collectorVars == <<gc, prevCPU, allMetrics, snapTimes, instances>>

-----------------------------------------------------------------------------
(* Program constants *)

Second == 1000
Millisecond == 1
DefaultMaxDataPoints == 60
MinDataPoints == 2
WindowSlackSeconds == 1
ToleranceMilliseconds == 100

(* Bounds of the model *)

MaxTs == 2          \* buffer specification: timestamps are 0..MaxTs seconds
MaxAppends == 3     \* buffer specification: number of AddDataPoint calls
MaxAgeSeconds == 3  \* buffer specification: maxAge is 1..MaxAgeSeconds seconds
MaxIntervalSeconds == 3  \* collection intervals are 1..MaxIntervalSeconds seconds
MaxRuleSeconds == 4      \* regular sampling: the rule's duration is 1..MaxRuleSeconds seconds
MaxRegularTicks == 6     \* regular sampling: number of ticker ticks handled

MaxTicks == 3       \* main: number of ticker ticks handled
MaxShutdownTicks == 2    \* main with the shutdown signal: number of ticker ticks handled
MaxDurationSeconds == 2  \* rule and query durations are 0..MaxDurationSeconds seconds

Metrics == {"cpu", "mem"}
Values == {0, 1}    \* a metric value below and one at the rules' thresholds

Min(a, b) == IF a < b THEN a ELSE b
Max(a, b) == IF a > b THEN a ELSE b
Ceil(a, b) == IF a % b = 0 THEN a \div b ELSE (a \div b) + 1

-----------------------------------------------------------------------------
(* internal/history/buffer.go *)

DataPoint(ts, v) == [Timestamp |-> ts, Value |-> v]

\* int(maxAge.Seconds()/collectionInterval.Seconds()) + 1, at least 2; 60 for
\* non-positive arguments.  The float quotient of two positive durations is
\* truncated by int(), which is integer division.
NewMetricHistoryBuffer(maxAge, collectionInterval) ==
    IF maxAge <= 0 \/ collectionInterval <= 0
    THEN DefaultMaxDataPoints
    ELSE LET n == (maxAge \div collectionInterval) + 1
         IN  IF n < MinDataPoints THEN MinDataPoints ELSE n

\* points[len(points)-n:]
LastN(points, n) == SubSeq(points, Len(points) - n + 1, Len(points))

\* AddDataPoint keeping the first cap points instead of the newest.
AddDataPoint_KeepOldest(bufs, cap, metricName, value, timestamp) ==
    LET points == IF metricName \in DOMAIN bufs THEN bufs[metricName] ELSE <<>>
        grown  == Append(points, DataPoint(timestamp, value))
        kept   == IF Len(grown) > cap THEN SubSeq(grown, 1, cap) ELSE grown
    IN  [m \in (DOMAIN bufs) \cup {metricName} |->
            IF m = metricName THEN kept ELSE bufs[m]]

\* AddDataPoint appending the point to every series of the map.
AddDataPoint_EverySeries(bufs, cap, metricName, value, timestamp) ==
    [m \in (DOMAIN bufs) \cup {metricName} |->
        LET points == IF m \in DOMAIN bufs THEN bufs[m] ELSE <<>>
            grown  == Append(points, DataPoint(timestamp, value))
        IN  IF Len(grown) > cap THEN LastN(grown, cap) ELSE grown]

\* The new value of hb.buffers after AddDataPoint(metricName, value, timestamp).
AddDataPoint(bufs, cap, metricName, value, timestamp) ==
    LET points == IF metricName \in DOMAIN bufs THEN bufs[metricName] ELSE <<>>
        grown  == Append(points, DataPoint(timestamp, value))
        kept   == IF Len(grown) > cap THEN LastN(grown, cap) ELSE grown
    IN  [m \in (DOMAIN bufs) \cup {metricName} |->
            IF m = metricName THEN kept ELSE bufs[m]]

RECURSIVE ScanBack(_, _, _)
\* The loop of GetDataPointsForDuration: from index i down to 1, stop at the
\* first point before startTime; the result is in reverse order.
ScanBack(points, i, startTime) ==
    IF i = 0 THEN <<>>
    ELSE IF points[i].Timestamp < startTime THEN <<>>
    ELSE <<points[i]>> \o ScanBack(points, i - 1, startTime)

Reverse(s) == [i \in 1..Len(s) |-> s[Len(s) + 1 - i]]

\* GetDataPointsForDuration without the duration == 0 case.
GetDataPointsForDuration_NoZeroCase(bufs, metricName, duration, now) ==
    IF metricName \notin DOMAIN bufs THEN <<>>
    ELSE LET points == bufs[metricName]
             startTime == now - (duration + WindowSlackSeconds * Second)
         IN  Reverse(ScanBack(points, Len(points), startTime))

GetDataPointsForDuration(bufs, metricName, duration, now) ==
    IF metricName \notin DOMAIN bufs THEN <<>>
    ELSE LET points == bufs[metricName]
         IN  IF Len(points) = 0 THEN <<>>
             ELSE IF duration = 0 THEN <<points[Len(points)]>>
             ELSE LET startTime == now - (duration + WindowSlackSeconds * Second)
                  IN  Reverse(ScanBack(points, Len(points), startTime))

\* (DataPoint, bool): the latest point and whether one exists.
GetLatestDataPoint(bufs, metricName) ==
    IF metricName \notin DOMAIN bufs \/ Len(bufs[metricName]) = 0
    THEN [dp |-> DataPoint(0, 0), exists |-> FALSE]
    ELSE [dp |-> bufs[metricName][Len(bufs[metricName])], exists |-> TRUE]

\* GetMaxConfiguredDuration(rules, collectionInterval)
RECURSIVE MaxRuleDuration(_, _)
MaxRuleDuration(rs, i) ==
    IF i > Len(rs) THEN 0
    ELSE Max(rs[i].Duration, MaxRuleDuration(rs, i + 1))

GetMaxConfiguredDuration(rs, collectionInterval) ==
    LET maxDuration == MaxRuleDuration(rs, 1)
        minRequiredDurationForBuffer == 2 * collectionInterval
    IN  IF maxDuration < minRequiredDurationForBuffer
        THEN minRequiredDurationForBuffer
        ELSE maxDuration

-----------------------------------------------------------------------------
(* internal/alerter/rule.go *)

ZeroTime == 0 - 1     \* time.Time{}: before every timestamp of the model

RECURSIVE Gcd(_, _)
Gcd(a, b) == IF b = 0 THEN a ELSE Gcd(b, a % b)

\* The float64 n / d for naturals n and d > 0, as a fraction in lowest terms.
Rat(n, d) == LET g == Gcd(n, d) IN <<n \div g, d \div g>>

ZeroValue == <<0, 1>>

AlertState(isActive, lastActiveTime, lastResolvedTime, lastValue) ==
    [IsActive |-> isActive, LastActiveTime |-> lastActiveTime,
     LastResolvedTime |-> lastResolvedTime, LastValue |-> lastValue]

\* The State of NewAlertRule(cfg).
NewAlertRule == AlertState(FALSE, ZeroTime, ZeroTime, ZeroValue)

\* strings.ToLower on the aggregation strings of the model.
ToLower(str) ==
    CASE str = "Average" -> "average"
      [] str = "MAX" -> "max"
      [] str = "Max" -> "max"
      [] OTHER -> str

RECURSIVE SumValues(_, _)
SumValues(points, i) ==
    IF i > Len(points) THEN 0 ELSE points[i].Value + SumValues(points, i + 1)

RECURSIVE MaxScan_KeepLast(_, _, _)
\* MaxScan taking every point's value, so that the last one remains.
MaxScan_KeepLast(points, i, valueToCompare) ==
    IF i > Len(points) THEN valueToCompare
    ELSE MaxScan_KeepLast(points, i + 1, points[i].Value)

RECURSIVE MaxScan(_, _, _)
\* for _, dp := range points { if dp.Value > valueToCompare { valueToCompare = dp.Value } }
MaxScan(points, i, valueToCompare) ==
    IF i > Len(points) THEN valueToCompare
    ELSE MaxScan(points, i + 1,
                 IF points[i].Value > valueToCompare THEN points[i].Value ELSE valueToCompare)

KnownConditions == {">", "<", "=", "!=", ">=", "<="}

\* Compare taking = and != within a tolerance of five units.
Compare_Tolerant(cond, v, threshold) ==
    CASE cond = ">"  -> v[1] > threshold * v[2]
      [] cond = "<"  -> v[1] < threshold * v[2]
      [] cond = "="  -> /\ v[1] >= (threshold - 5) * v[2]
                        /\ v[1] <= (threshold + 5) * v[2]
      [] cond = "!=" -> \/ v[1] < (threshold - 5) * v[2]
                        \/ v[1] > (threshold + 5) * v[2]
      [] cond = ">=" -> v[1] >= threshold * v[2]
      [] cond = "<=" -> v[1] <= threshold * v[2]
      [] OTHER -> FALSE

\* valueToCompare <cond> threshold, for valueToCompare = v[1] / v[2] and an
\* integer threshold.
Compare(cond, v, threshold) ==
    CASE cond = ">"  -> v[1] > threshold * v[2]
      [] cond = "<"  -> v[1] < threshold * v[2]
      [] cond = "="  -> v[1] = threshold * v[2]
      [] cond = "!=" -> v[1] # threshold * v[2]
      [] cond = ">=" -> v[1] >= threshold * v[2]
      [] cond = "<=" -> v[1] <= threshold * v[2]
      [] OTHER -> FALSE

EvalResult(conditionMet, aggregatedValue, err) ==
    [conditionMet |-> conditionMet, aggregatedValue |-> aggregatedValue, err |-> err]

\* Aggregate applying the aggregation to instantaneous rules as well.
Aggregate_AlwaysAggregates(ar, points) ==
    CASE ToLower(ar.Aggregation) = "average" ->
            [ok |-> TRUE, v |-> Rat(SumValues(points, 1), Len(points))]
      [] ToLower(ar.Aggregation) = "max" ->
            [ok |-> TRUE, v |-> Rat(MaxScan(points, 1, points[1].Value), 1)]
      [] OTHER -> [ok |-> FALSE, v |-> ZeroValue]

\* Aggregate falling back to the average for an aggregation it does not know.
Aggregate_DefaultAverage(ar, points) ==
    IF ar.Duration = 0
    THEN [ok |-> TRUE, v |-> Rat(points[Len(points)].Value, 1)]
    ELSE CASE ToLower(ar.Aggregation) = "max" ->
                [ok |-> TRUE, v |-> Rat(MaxScan(points, 1, points[1].Value), 1)]
           [] OTHER ->
                [ok |-> TRUE, v |-> Rat(SumValues(points, 1), Len(points))]

\* The value aggregated from a non-empty points: [ok, v].
Aggregate(ar, points) ==
    IF ar.Duration = 0
    THEN [ok |-> TRUE, v |-> Rat(points[Len(points)].Value, 1)]
    ELSE CASE ToLower(ar.Aggregation) = "average" ->
                [ok |-> TRUE, v |-> Rat(SumValues(points, 1), Len(points))]
           [] ToLower(ar.Aggregation) = "max" ->
                [ok |-> TRUE, v |-> Rat(MaxScan(points, 1, points[1].Value), 1)]
           [] OTHER -> [ok |-> FALSE, v |-> ZeroValue]

\* Evaluate taking an empty points for a value of zero.
Evaluate_EmptyIsZero(ar, points) ==
    IF Len(points) = 0
    THEN EvalResult(Compare(ar.Condition, ZeroValue, ar.Threshold), ZeroValue, "nil")
    ELSE LET agg == Aggregate(ar, points)
         IN  IF ~agg.ok
             THEN EvalResult(FALSE, ZeroValue, "UnknownAggregation")
             ELSE IF ar.Condition \notin KnownConditions
             THEN EvalResult(FALSE, agg.v, "UnknownCondition")
             ELSE EvalResult(Compare(ar.Condition, agg.v, ar.Threshold), agg.v, "nil")

\* (conditionMet, aggregatedValue, err); err is "nil" on success.
Evaluate(ar, points) ==
    IF Len(points) = 0
    THEN EvalResult(FALSE, ZeroValue, "InsufficientData")
    ELSE LET agg == Aggregate(ar, points)
         IN  IF ~agg.ok
             THEN EvalResult(FALSE, ZeroValue, "UnknownAggregation")
             ELSE IF ar.Condition \notin KnownConditions
             THEN EvalResult(FALSE, agg.v, "UnknownCondition")
             ELSE EvalResult(Compare(ar.Condition, agg.v, ar.Threshold), agg.v, "nil")

-----------------------------------------------------------------------------
(* internal/alerter/alerter.go *)

AlertEvent(ruleIndex, type, timestamp, metricValue) ==
    [Rule |-> ruleIndex, Type |-> type, Timestamp |-> timestamp, MetricValue |-> metricValue]

\* What one iteration of the loop of CheckAndNotify does with a rule:
\* the rule's new State, the events it appends and how the iteration ended.
RuleResult(state, evs, outcome) == [state |-> state, events |-> evs, outcome |-> outcome]

\* SpanTooShort with twice the tolerance.
SpanTooShort_DoubleTolerance(points, duration, now) ==
    now - points[1].Timestamp < duration - 2 * ToleranceMilliseconds * Millisecond

\* now.Sub(firstPointTime) < rule.Duration - 100*time.Millisecond
SpanTooShort(points, duration, now) ==
    now - points[1].Timestamp < duration - ToleranceMilliseconds * Millisecond

\* EvaluateAndTransition firing whenever the condition is met, active or not.
EvaluateAndTransition_NoHysteresis(i, rule, state, points, now) ==
    LET r == Evaluate(rule, points)
    IN  IF r.err # "nil" THEN RuleResult(state, <<>>, "error")
        ELSE IF r.conditionMet
        THEN RuleResult(AlertState(TRUE, now, state.LastResolvedTime, r.aggregatedValue),
                        <<AlertEvent(i, "FIRED", now, r.aggregatedValue)>>, "evaluated")
        ELSE IF ~r.conditionMet /\ state.IsActive
        THEN RuleResult(AlertState(FALSE, state.LastActiveTime, now, r.aggregatedValue),
                        <<AlertEvent(i, "RESOLVED", now, r.aggregatedValue)>>, "evaluated")
        ELSE RuleResult(state, <<>>, "evaluated")

\* EvaluateAndTransition whose RESOLVED branch does not record the value at
\* resolution.
EvaluateAndTransition_StaleResolveValue(i, rule, state, points, now) ==
    LET r == Evaluate(rule, points)
    IN  IF r.err # "nil" THEN RuleResult(state, <<>>, "error")
        ELSE IF r.conditionMet /\ ~state.IsActive
        THEN RuleResult(AlertState(TRUE, now, state.LastResolvedTime, r.aggregatedValue),
                        <<AlertEvent(i, "FIRED", now, r.aggregatedValue)>>, "evaluated")
        ELSE IF ~r.conditionMet /\ state.IsActive
        THEN RuleResult(AlertState(FALSE, state.LastActiveTime, now, state.LastValue),
                        <<AlertEvent(i, "RESOLVED", now, r.aggregatedValue)>>, "evaluated")
        ELSE RuleResult(state, <<>>, "evaluated")

\* EvaluateAndTransition recording the evaluated value on every evaluation.
EvaluateAndTransition_AlwaysRecordValue(i, rule, state, points, now) ==
    LET r == Evaluate(rule, points)
    IN  IF r.err # "nil" THEN RuleResult(state, <<>>, "error")
        ELSE IF r.conditionMet /\ ~state.IsActive
        THEN RuleResult(AlertState(TRUE, now, state.LastResolvedTime, r.aggregatedValue),
                        <<AlertEvent(i, "FIRED", now, r.aggregatedValue)>>, "evaluated")
        ELSE IF ~r.conditionMet /\ state.IsActive
        THEN RuleResult(AlertState(FALSE, state.LastActiveTime, now, r.aggregatedValue),
                        <<AlertEvent(i, "RESOLVED", now, r.aggregatedValue)>>, "evaluated")
        ELSE RuleResult([state EXCEPT !.LastValue = r.aggregatedValue], <<>>, "evaluated")

\* Lines 96-129: Evaluate, then the FIRED / RESOLVED transition.
EvaluateAndTransition(i, rule, state, points, now) ==
    LET r == Evaluate(rule, points)
    IN  IF r.err # "nil" THEN RuleResult(state, <<>>, "error")
        ELSE IF r.conditionMet /\ ~state.IsActive
        THEN RuleResult(AlertState(TRUE, now, state.LastResolvedTime, r.aggregatedValue),
                        <<AlertEvent(i, "FIRED", now, r.aggregatedValue)>>, "evaluated")
        ELSE IF ~r.conditionMet /\ state.IsActive
        THEN RuleResult(AlertState(FALSE, state.LastActiveTime, now, r.aggregatedValue),
                        <<AlertEvent(i, "RESOLVED", now, r.aggregatedValue)>>, "evaluated")
        ELSE RuleResult(state, <<>>, "evaluated")

\* Lines 67-129: the body of the loop over a.rules for rule number i.
CheckRule(i, rule, state, bufs, now) ==
    LET metricValuePoints == GetDataPointsForDuration(bufs, rule.Metric, rule.Duration, now)
    IN  IF rule.Duration > 0
        THEN IF Len(metricValuePoints) = 0
             THEN RuleResult(state, <<>>, "no_points")
             ELSE IF SpanTooShort(metricValuePoints, rule.Duration, now)
             THEN RuleResult(state, <<>>, "short_span")
             ELSE EvaluateAndTransition(i, rule, state, metricValuePoints, now)
        ELSE LET latest == GetLatestDataPoint(bufs, rule.Metric)
             IN  IF ~latest.exists
                 THEN RuleResult(state, <<>>, "no_latest")
                 ELSE EvaluateAndTransition(i, rule, state, <<latest.dp>>, now)

RECURSIVE CheckLoop_ReturnOnSkip(_, _, _, _, _, _, _)
\* CheckLoop leaving the loop at the first rule it cannot evaluate.
CheckLoop_ReturnOnSkip(i, rs, states, evs, outcomes, bufs, now) ==
    IF i > Len(rs) THEN [states |-> states, events |-> evs, outcomes |-> outcomes]
    ELSE LET r == CheckRule(i, rs[i], states[i], bufs, now)
         IN  IF r.outcome # "evaluated"
             THEN [states |-> states, events |-> evs,
                   outcomes |-> outcomes \o <<r.outcome>>
                                    \o [k \in 1..(Len(rs) - i) |-> "not_reached"]]
             ELSE CheckLoop_ReturnOnSkip(i + 1, rs, [states EXCEPT ![i] = r.state],
                                         evs \o r.events, Append(outcomes, r.outcome),
                                         bufs, now)

RECURSIVE CheckLoop(_, _, _, _, _, _, _)
\* for _, rule := range a.rules, from rule number i on.
CheckLoop(i, rs, states, evs, outcomes, bufs, now) ==
    IF i > Len(rs) THEN [states |-> states, events |-> evs, outcomes |-> outcomes]
    ELSE LET r == CheckRule(i, rs[i], states[i], bufs, now)
         IN  CheckLoop(i + 1, rs, [states EXCEPT ![i] = r.state], evs \o r.events,
                       Append(outcomes, r.outcome), bufs, now)

Notifiers == {"stdout", "email"}

RECURSIVE SendToChannels(_, _, _)
\* sendNotificationsForRule: one Send per channel of the rule that is configured.
SendToChannels(event, channels, k) ==
    IF k > Len(channels) THEN <<>>
    ELSE (IF channels[k] \in Notifiers
          THEN <<[Rule |-> event.Rule, State |-> event.Type, Channel |-> channels[k],
                  Time |-> event.Timestamp, MetricValue |-> event.MetricValue]>>
          ELSE <<>>) \o SendToChannels(event, channels, k + 1)

RECURSIVE SendAll(_, _, _)
\* for _, event := range events { a.sendNotificationsForRule(event) }
SendAll(rs, evs, k) ==
    IF k > Len(evs) THEN <<>>
    ELSE SendToChannels(evs[k], rs[evs[k].Rule].Channels, 1) \o SendAll(rs, evs, k + 1)

\* CheckAndNotify(now, currentMetrics): the rules' new states, the events and
\* the notifications sent, with how each rule's iteration ended.
CheckAndNotify(rs, states, bufs, now) ==
    LET r == CheckLoop(1, rs, states, <<>>, <<>>, bufs, now)
    IN  [states |-> r.states, events |-> r.events, outcomes |-> r.outcomes,
         sent |-> SendAll(rs, r.events, 1)]

\* GetCurrentActiveAlerts with an entry for every rule ever fired or resolved.
GetCurrentActiveAlerts_EverTransitioned(rs, states) ==
    {rs[i].Name : i \in {j \in 1..Len(rs) :
                             states[j].IsActive \/ states[j].LastResolvedTime # ZeroTime}}

\* GetCurrentActiveAlerts(): the names of the rules whose IsActive is true.
GetCurrentActiveAlerts(rs, states) ==
    {rs[i].Name : i \in {j \in 1..Len(rs) : states[j].IsActive}}

-----------------------------------------------------------------------------
(* The buffer on its own: NewMetricHistoryBuffer with any positive arguments,  *)
(* then AddDataPoint calls with any metric, value and timestamp (timestamps    *)
(* need not be monotonic: AddDataPoint takes the timestamp from its caller).  *)

BufferTimes == {k * Second : k \in 0..MaxTs}

LogLen(log, m) == IF m \in DOMAIN log THEN Len(log[m]) ELSE 0

TotalAppended == LogLen(appended, "cpu") + LogLen(appended, "mem")

\* No rate calculation, no restart and no configuration load is followed.
InitIdleRates ==
    /\ prevStats = <<0, 0>>
    /\ currStats = <<0, 0>>
    /\ elapsedMs = 0
    /\ netRates = {}
    /\ diskRates = {}

InitIdleService ==
    /\ activeStates = {}
    /\ activeAtExit = {}
    /\ restarts = 0

\* No goroutine but main uses the buffer, no signal is followed, and the
\* collectors are not followed.
InitIdleLocks ==
    /\ mu = [writer |-> {}, readers |-> {}]
    /\ proc = <<>>
    /\ alerterMu = {}

InitIdleSignal ==
    /\ shutdownSignal = 0
    /\ tickState = [collected |-> <<>>, todo |-> {}, signalled |-> FALSE]

InitIdleCollector ==
    /\ gc = [lastDiskStats |-> {}, lastNetworkStats |-> {}, lastCollectTime |-> ZeroTime]
    /\ prevCPU = <<0, 0>>
    /\ allMetrics = <<>>
    /\ snapTimes = [disk |-> ZeroTime, net |-> ZeroTime]
    /\ instances = [of |-> <<>>, caller |-> "none"]

InitIdleConfig ==
    /\ cfgAlert = "none"
    /\ loadResult = [status |-> "pending"]
    /\ evalPoints = <<>>
    /\ evalResult = {}

\* No buffer is followed: NewMetricHistoryBuffer with its default capacity.
InitIdleBuffer ==
    /\ ctorMaxAge = 0
    /\ ctorInterval = 0
    /\ maxDataPoints = NewMetricHistoryBuffer(ctorMaxAge, ctorInterval)
    /\ buffers = <<>>
    /\ appended = <<>>

InitIdleAlerter ==
    /\ rules = <<>>
    /\ ruleState = <<>>
    /\ events = <<>>
    /\ sent = <<>>
    /\ clock = 0
    /\ pc = "buffer"
    /\ ticks = 0
    /\ lastType = <<>>
    /\ prevType = <<>>
    /\ lastCycle = <<>>

InitBuffer ==
    /\ ctorMaxAge \in {k * Second : k \in 1..MaxAgeSeconds}
    /\ ctorInterval \in {k * Second : k \in 1..MaxIntervalSeconds}
    /\ maxDataPoints = NewMetricHistoryBuffer(ctorMaxAge, ctorInterval)
    /\ buffers = <<>>
    /\ appended = <<>>
    /\ InitIdleAlerter
    /\ InitIdleRates
    /\ InitIdleService
    /\ InitIdleLocks
    /\ InitIdleSignal
    /\ InitIdleCollector
    /\ InitIdleConfig

AppendLog(log, metricName, value, timestamp) ==
    [m \in (DOMAIN log) \cup {metricName} |->
        IF m = metricName
        THEN Append(IF m \in DOMAIN log THEN log[m] ELSE <<>>, DataPoint(timestamp, value))
        ELSE log[m]]

CallAddDataPoint ==
    /\ TotalAppended < MaxAppends
    /\ \E m \in Metrics, v \in Values, ts \in BufferTimes :
          /\ buffers' = AddDataPoint(buffers, maxDataPoints, m, v, ts)
          /\ appended' = AppendLog(appended, m, v, ts)
    /\ UNCHANGED <<maxDataPoints, ctorMaxAge, ctorInterval>>
    /\ UNCHANGED <<alerterVars, rateVars, serviceVars, configVars>>
    /\ UNCHANGED <<lockVars, signalVars, collectorVars>>

NextBuffer == CallAddDataPoint

SpecBuffer == InitBuffer /\ [][NextBuffer]_vars

-----------------------------------------------------------------------------
(* cmd/monres/main.go: the configuration, the initial collection, the ticker  *)
(* loop and the shutdown signal.  CollectAll yields a value for any subset of *)
(* the metrics (a collector that fails contributes none).                     *)

AlertRuleConfig(name, metric, condition, threshold, duration, aggregation, channels) ==
    [Name |-> name, Metric |-> metric, Condition |-> condition, Threshold |-> threshold,
     Duration |-> duration, Aggregation |-> aggregation, Channels |-> channels]

\* The alert lists of the model: instantaneous and duration-based rules, both
\* aggregations, a rule LoadConfig accepts whose condition Evaluate rejects,
\* and a rule with a channel that is not configured.
RuleSets ==
    { << AlertRuleConfig("cpu_now", "cpu", ">", 0, 0, "", <<"stdout">>),
         AlertRuleConfig("mem_avg", "mem", ">=", 1, 1 * Second, "average", <<"email", "pager">>),
         AlertRuleConfig("cpu_max", "cpu", ">", 0, 2 * Second, "Max", <<"stdout">>) >>,
      << AlertRuleConfig("cpu_bad", "cpu", "=>", 0, 0, "", <<"stdout">>),
         AlertRuleConfig("cpu_avg", "cpu", ">", 0, 1 * Second, "Average", <<"stdout">>),
         AlertRuleConfig("mem_low", "mem", "<", 1, 0, "average", <<"stdout", "email">>) >> }

Intervals == {k * Second : k \in 1..MaxIntervalSeconds}

\* The metric maps CollectAll can return when the collectors of the metrics
\* in ms may succeed.
CollectedMetrics(ms) == UNION {[S -> Values] : S \in SUBSET ms}

RECURSIVE AddAll_AllOrNothing(_, _, _, _, _)
\* The loop over the collected map giving up when a collector's metrics are
\* missing from it.
AddAll_AllOrNothing(bufs, cap, collected, names, ts) ==
    IF names = {} \/ ~(Metrics \subseteq DOMAIN collected) THEN bufs
    ELSE LET name == CHOOSE n \in names : TRUE
         IN  AddAll_AllOrNothing(AddDataPoint(bufs, cap, name, collected[name], ts), cap,
                                 collected, names \ {name}, ts)

RECURSIVE AddAll(_, _, _, _, _)
\* for name, value := range collected { metricHist.AddDataPoint(name, value, ts) }
AddAll(bufs, cap, collected, names, ts) ==
    IF names = {} THEN bufs
    ELSE LET name == CHOOSE n \in names : TRUE
         IN  AddAll(AddDataPoint(bufs, cap, name, collected[name], ts), cap,
                    collected, names \ {name}, ts)

RECURSIVE LogAll(_, _, _, _)
LogAll(log, collected, names, ts) ==
    IF names = {} THEN log
    ELSE LET name == CHOOSE n \in names : TRUE
         IN  LogAll(AppendLog(log, name, collected[name], ts), collected, names \ {name}, ts)

\* main up to the ticker loop: the buffer sized for the longest rule, the
\* alerter with every rule inactive, nothing collected yet.
InitMain(rs, interval) ==
    /\ ctorInterval = interval
    /\ rules = rs
    /\ ctorMaxAge = GetMaxConfiguredDuration(rules, ctorInterval)
    /\ maxDataPoints = NewMetricHistoryBuffer(ctorMaxAge, ctorInterval)
    /\ buffers = <<>>
    /\ appended = <<>>
    /\ ruleState = [i \in 1..Len(rules) |-> NewAlertRule]
    /\ events = <<>>
    /\ sent = <<>>
    /\ clock = 0
    /\ pc = "start"
    /\ ticks = 0
    /\ lastType = [i \in 1..Len(rules) |-> "NONE"]
    /\ prevType = [i \in 1..Len(rules) |-> "NONE"]
    /\ lastCycle = [i \in 1..Len(rules) |->
                        [outcome |-> "none", wasActive |-> FALSE, seen |-> FALSE]]
    /\ InitIdleRates
    /\ InitIdleService
    /\ InitIdleLocks
    /\ InitIdleSignal
    /\ InitIdleCollector
    /\ InitIdleConfig

EventsOf(evs, i) == {k \in 1..Len(evs) : evs[k].Rule = i}

\* a.CheckAndNotify(now) on the buffer bufs: the rules' states, the events
\* and the notifications after it.
EvaluatedFrom(states, bufs, now) ==
    \E r \in {CheckAndNotify(rules, states, bufs, now)} :
        /\ ruleState' = r.states
        /\ events' = r.events
        /\ sent' = r.sent
        /\ lastType' = [i \in 1..Len(rules) |->
                           IF EventsOf(r.events, i) = {} THEN lastType[i]
                           ELSE r.events[CHOOSE k \in EventsOf(r.events, i) : TRUE].Type]
        /\ prevType' = [i \in 1..Len(rules) |->
                           IF EventsOf(r.events, i) = {} THEN prevType[i] ELSE lastType[i]]
        /\ lastCycle' = [i \in 1..Len(rules) |->
                           [outcome |-> r.outcomes[i], wasActive |-> states[i].IsActive,
                            seen |-> lastCycle[i].seen \/ r.outcomes[i] = "evaluated"]]

Evaluated(bufs, now) == EvaluatedFrom(ruleState, bufs, now)

\* AddDataPoint for every collected metric at time now, then CheckAndNotify(now).
CollectAndCheck(collected, now) ==
    \E bufs \in {AddAll(buffers, maxDataPoints, collected, DOMAIN collected, now)} :
        /\ buffers' = bufs
        /\ appended' = LogAll(appended, collected, DOMAIN collected, now)
        /\ clock' = now
        /\ tickState' = [collected |-> collected, todo |-> {}, signalled |-> FALSE]
        /\ Evaluated(bufs, now)
        /\ UNCHANGED <<maxDataPoints, ctorMaxAge, ctorInterval, rules>>
        /\ UNCHANGED <<rateVars, serviceVars, configVars>>
        /\ UNCHANGED <<lockVars, shutdownSignal, collectorVars>>

\* Lines 201-215: the initial collection and evaluation pass.
InitialCollectionOf(collections) ==
    /\ pc = "start"
    /\ pc' = "loop"
    /\ ticks' = ticks
    /\ \E collected \in collections : CollectAndCheck(collected, clock)

\* Lines 220-240: case <-ticker.C, handled one interval after the latest tick
\* less one of the delays with which the latest tick was handled.
TickOf(collections, delays, maxTicks) ==
    /\ pc = "loop"
    /\ ticks < maxTicks
    /\ pc' = pc
    /\ ticks' = ticks + 1
    /\ \E collected \in collections, delay \in delays :
          CollectAndCheck(collected, clock + ctorInterval - delay)

\* Lines 242-246: case sig := <-shutdownSignal.
Shutdown ==
    /\ pc = "loop"
    /\ pc' = "done"
    /\ UNCHANGED <<buffers, maxDataPoints, ctorMaxAge, ctorInterval, appended, rules,
                   ruleState, events, sent, clock, ticks, lastType, prevType, lastCycle>>
    /\ UNCHANGED <<rateVars, serviceVars, configVars>>
    /\ UNCHANGED <<lockVars, signalVars, collectorVars>>

(* The main loop with every tick handled on time. *)

Init == \E rs \in RuleSets : InitMain(rs, 1 * Second)

InitialCollection == InitialCollectionOf(CollectedMetrics(Metrics))

Tick == TickOf(CollectedMetrics(Metrics), {0}, MaxTicks)

Next == InitialCollection \/ Tick \/ Shutdown

Spec == Init /\ [][Next]_vars

(* The main loop with the shutdown signal.  signal.Notify sends a SIGINT or *)
(* SIGTERM to a channel of capacity one registered before the initial       *)
(* collection; main receives from it only in the select of the loop.  The   *)
(* handling of a tick is followed statement by statement: CollectAll, one   *)
(* AddDataPoint per collected metric in the order of the map's iteration,   *)
(* then CheckAndNotify.                                                      *)

ShutdownRules ==
    << AlertRuleConfig("cpu_now", "cpu", ">=", 1, 0, "", <<"stdout">>),
       AlertRuleConfig("mem_avg", "mem", ">=", 1, 1 * Second, "average", <<"stdout">>) >>

InitShutdown == InitMain(ShutdownRules, 1 * Second)

\* main receives from shutdownSignal wherever it is.
AtSelect_Anywhere(p) == p \in {"loop", "tick"}

\* main is at the select statement.
AtSelect(p) == p = "loop"

\* The maps CollectAll can return, every collected value at the threshold.
ShutdownCollections == {c \in CollectedMetrics(Metrics) : \A name \in DOMAIN c : c[name] = 1}

ShutdownInitialCollection == InitialCollectionOf(ShutdownCollections)

\* The operating system delivers SIGINT or SIGTERM: the runtime sends it to
\* the channel unless the channel is full.
SignalDelivered ==
    /\ pc \in {"start", "loop", "tick"}
    /\ shutdownSignal = 0
    /\ shutdownSignal' = 1
    /\ tickState' = [tickState EXCEPT !.signalled = @ \/ pc = "tick"]
    /\ UNCHANGED <<bufferVars, alerterVars, rateVars, serviceVars, configVars>>
    /\ UNCHANGED <<lockVars, collectorVars>>

\* Lines 220-231: case <-ticker.C, time.Now() and CollectAll.
TickBegin ==
    /\ AtSelect(pc)
    /\ ticks < MaxShutdownTicks
    /\ pc' = "tick"
    /\ ticks' = ticks + 1
    /\ clock' = clock + ctorInterval
    /\ \E collected \in ShutdownCollections :
          tickState' = [collected |-> collected, todo |-> DOMAIN collected,
                        signalled |-> FALSE]
    /\ UNCHANGED <<rules, ruleState, events, sent, lastType, prevType, lastCycle>>
    /\ UNCHANGED <<bufferVars, rateVars, serviceVars, configVars>>
    /\ UNCHANGED <<lockVars, shutdownSignal, collectorVars>>

\* Lines 234-238: one iteration of the loop over the collected map.
TickAppend ==
    /\ pc = "tick"
    /\ \E name \in tickState.todo :
          /\ buffers' = AddDataPoint(buffers, maxDataPoints, name,
                                     tickState.collected[name], clock)
          /\ appended' = AppendLog(appended, name, tickState.collected[name], clock)
          /\ tickState' = [tickState EXCEPT !.todo = @ \ {name}]
    /\ UNCHANGED <<maxDataPoints, ctorMaxAge, ctorInterval>>
    /\ UNCHANGED <<alerterVars, rateVars, serviceVars, configVars>>
    /\ UNCHANGED <<lockVars, shutdownSignal, collectorVars>>

\* Line 240: CheckAndNotify, and back to the select.
TickCheck ==
    /\ pc = "tick"
    /\ tickState.todo = {}
    /\ pc' = "loop"
    /\ Evaluated(buffers, clock)
    /\ UNCHANGED <<rules, clock, ticks>>
    /\ UNCHANGED <<bufferVars, rateVars, serviceVars, configVars>>
    /\ UNCHANGED <<lockVars, signalVars, collectorVars>>

\* Lines 242-246: case sig := <-shutdownSignal, and main returns.
ShutdownTaken ==
    /\ AtSelect(pc)
    /\ shutdownSignal = 1
    /\ shutdownSignal' = 0
    /\ pc' = "done"
    /\ UNCHANGED <<rules, ruleState, events, sent, clock, ticks, lastType, prevType, lastCycle>>
    /\ UNCHANGED <<bufferVars, rateVars, serviceVars, configVars>>
    /\ UNCHANGED <<lockVars, tickState, collectorVars>>

NextShutdown ==
    \/ ShutdownInitialCollection
    \/ SignalDelivered
    \/ TickBegin
    \/ TickAppend
    \/ TickCheck
    \/ ShutdownTaken

\* The initial collection, and the CheckAndNotify of a tick, return: the
\* steps of main that take it to the select.
ReachesSelect ==
    \/ pc = "start" /\ pc' = "loop"
    \/ pc = "tick" /\ tickState.todo = {} /\ pc' = "loop"

\* The statements of main run on (the initial collection and a tick that was
\* begun go on to their end), and a select with a signal waiting takes the
\* shutdown case sooner or later: Go chooses at random among the ready cases.
SpecShutdown ==
    /\ InitShutdown
    /\ [][NextShutdown]_vars
    /\ WF_pc(ReachesSelect)
    /\ WF_vars(TickAppend)
    /\ SF_vars(ShutdownTaken)

(* The main loop with ticks handled up to 200ms late, so that two ticks are  *)
(* less than an interval apart; only the CPU collector is followed, the      *)
(* rules read no other metric.                                               *)

TickDelays == {0, 100 * Millisecond, 200 * Millisecond}

JitterRules ==
    << AlertRuleConfig("cpu_avg", "cpu", ">", 0, 1 * Second, "average", <<"stdout">>),
       AlertRuleConfig("cpu_max", "cpu", ">", 0, 2 * Second, "max", <<"stdout">>) >>

InitJitter == InitMain(JitterRules, 1 * Second)

JitterInitialCollection == InitialCollectionOf(CollectedMetrics({"cpu"}))

JitterTick == TickOf(CollectedMetrics({"cpu"}), TickDelays, MaxTicks)

NextJitter == JitterInitialCollection \/ JitterTick \/ Shutdown

SpecJitter == InitJitter /\ [][NextJitter]_vars

(* Regular sampling: one duration-based rule on the CPU metric, whose       *)
(* collector succeeds on every tick, every tick handled on time.            *)

RegularRules ==
    { << AlertRuleConfig("cpu_sustained", "cpu", ">=", 1, d, agg, <<"stdout">>) >> :
         d \in {k * Second : k \in 1..MaxRuleSeconds}, agg \in {"average", "max"} }

InitRegular == \E rs \in RegularRules, interval \in Intervals : InitMain(rs, interval)

RegularInitialCollection == InitialCollectionOf([{"cpu"} -> Values])

RegularTick == TickOf([{"cpu"} -> Values], {0}, MaxRegularTicks)

NextRegular == RegularInitialCollection \/ RegularTick \/ Shutdown

SpecRegular == InitRegular /\ [][NextRegular]_vars

(* The service over a restart: the main loop on the CPU metric, the         *)
(* alerter's GetCurrentActiveAlerts called at any time while main runs, and *)
(* the process started again after a shutdown.  The rules are an            *)
(* instantaneous one, a duration-based one without aggregation, one whose   *)
(* condition is not a comparison operator (LoadConfig accepts both) and a   *)
(* duration-based average.                                                  *)

MaxRestarts == 1

ServiceRules ==
    << AlertRuleConfig("cpu_now", "cpu", ">", 0, 0, "", <<"stdout">>),
       AlertRuleConfig("cpu_noagg", "cpu", ">", 0, 1 * Second, "", <<"stdout">>),
       AlertRuleConfig("cpu_bad", "cpu", "=>", 0, 0, "max", <<"stdout">>),
       AlertRuleConfig("cpu_avg", "cpu", ">", 0, 1 * Second, "average", <<"stdout">>) >>

InitService == InitMain(ServiceRules, 1 * Second)

ServiceInitialCollection == InitialCollectionOf(CollectedMetrics({"cpu"}))

ServiceTick == TickOf(CollectedMetrics({"cpu"}), {0}, MaxTicks)

\* A call of GetCurrentActiveAlerts on the running alerter.
CallGetCurrentActiveAlerts ==
    /\ pc \in {"start", "loop"}
    /\ activeStates' = {GetCurrentActiveAlerts(rules, ruleState)}
    /\ UNCHANGED <<activeAtExit, restarts>>
    /\ UNCHANGED <<bufferVars, alerterVars, rateVars, configVars>>
    /\ UNCHANGED <<lockVars, signalVars, collectorVars>>

\* The process is started again after a shutdown, one interval later: main
\* builds a new buffer and NewAlerter builds the rules from the configuration
\* alone.  Nothing of the stopped process is read back.
Restart ==
    /\ pc = "done"
    /\ restarts < MaxRestarts
    /\ restarts' = restarts + 1
    /\ activeAtExit' = GetCurrentActiveAlerts(rules, ruleState)
    /\ activeStates' = {}
    /\ buffers' = <<>>
    /\ appended' = <<>>
    /\ ruleState' = [i \in 1..Len(rules) |-> NewAlertRule]
    /\ events' = <<>>
    /\ sent' = <<>>
    /\ clock' = clock + ctorInterval
    /\ pc' = "start"
    /\ ticks' = 0
    /\ lastType' = [i \in 1..Len(rules) |-> "NONE"]
    /\ prevType' = [i \in 1..Len(rules) |-> "NONE"]
    /\ lastCycle' = [i \in 1..Len(rules) |->
                        [outcome |-> "none", wasActive |-> FALSE, seen |-> FALSE]]
    /\ UNCHANGED <<maxDataPoints, ctorMaxAge, ctorInterval, rules>>
    /\ UNCHANGED <<rateVars, configVars>>
    /\ tickState' = [collected |-> <<>>, todo |-> {}, signalled |-> FALSE]
    /\ UNCHANGED <<lockVars, shutdownSignal, collectorVars>>

NextService ==
    \/ ServiceInitialCollection
    \/ ServiceTick
    \/ CallGetCurrentActiveAlerts
    \/ Shutdown
    \/ Restart

SpecService == InitService /\ [][NextService]_vars

-----------------------------------------------------------------------------
(* The buffer used by several goroutines at once, as TestConcurrentAccess    *)
(* uses it.  Every method takes the RWMutex on entry and releases it on      *)
(* return (defer); between the two, AddDataPoint reads the series from the   *)
(* map, then stores the appended and trimmed series back, and a read method  *)
(* computes its result from the map.  One goroutine runs a cycle of main:    *)
(* an append, the two queries of CheckAndNotify and a notifier's Send, which *)
(* takes as long as it likes.                                                *)

AddCall(metricName, value, timestamp) ==
    [op |-> "AddDataPoint", metric |-> metricName, value |-> value, at |-> timestamp,
     duration |-> 0]

LatestCall(metricName) ==
    [op |-> "GetLatestDataPoint", metric |-> metricName, value |-> 0, at |-> 0, duration |-> 0]

WindowCall(metricName, duration, now) ==
    [op |-> "GetDataPointsForDuration", metric |-> metricName, value |-> 0, at |-> now,
     duration |-> duration]

SendCall == [op |-> "Send", metric |-> "", value |-> 0, at |-> 0, duration |-> 0]

ReadOps == {"GetLatestDataPoint", "GetDataPointsForDuration"}

\* The calls each goroutine makes, in order.
Programs ==
    [ main    |-> << AddCall("cpu", 31, 2 * Second), WindowCall("cpu", 1 * Second, 2 * Second),
                     LatestCall("cpu"), SendCall >>,
      writer1 |-> << AddCall("cpu", 11, 0), AddCall("cpu", 12, 1 * Second) >>,
      writer2 |-> << AddCall("cpu", 21, 1 * Second) >>,
      reader  |-> << LatestCall("cpu"), WindowCall("cpu", 1 * Second, 2 * Second),
                     WindowCall("nonexistent", 1 * Second, 2 * Second),
                     LatestCall("nonexistent") >> ]

Goroutines == DOMAIN Programs

\* sync.RWMutex: Lock waits until nobody holds the mutex.
CanLock_Always(m) == TRUE

CanLock(m) == m.writer = {} /\ m.readers = {}

\* RLock waits until no writer holds the mutex.
CanRLock(m) == m.writer = {}

Lock(m, p) == [m EXCEPT !.writer = @ \cup {p}]

Unlock(m, p) == [m EXCEPT !.writer = @ \ {p}]

RLock(m, p) == [m EXCEPT !.readers = @ \cup {p}]

\* RUnlock that leaves the mutex read-locked.
RUnlock_Keep(m, p) == m

RUnlock(m, p) == [m EXCEPT !.readers = @ \ {p}]

\* points, exists := hb.buffers[metricName]
LoadSeries(bufs, metricName) == IF metricName \in DOMAIN bufs THEN bufs[metricName] ELSE <<>>

\* The map with the series of metricName as the goroutine read it.
WithSeries(bufs, metricName, points) ==
    IF metricName \notin DOMAIN bufs /\ points = <<>> THEN bufs
    ELSE [m \in (DOMAIN bufs) \cup {metricName} |-> IF m = metricName THEN points ELSE bufs[m]]

\* A read method that answers for an unknown metric as for an empty series
\* that exists.
ReadOf_UnknownAsZero(call, bufs) ==
    IF call.op = "GetLatestDataPoint"
    THEN IF call.metric \in DOMAIN bufs THEN GetLatestDataPoint(bufs, call.metric)
         ELSE [dp |-> DataPoint(0, 0), exists |-> TRUE]
    ELSE GetDataPointsForDuration(bufs, call.metric, call.duration, call.at)

\* What a read method returns on the map bufs.
ReadOf(call, bufs) ==
    IF call.op = "GetLatestDataPoint"
    THEN GetLatestDataPoint(bufs, call.metric)
    ELSE GetDataPointsForDuration(bufs, call.metric, call.duration, call.at)

CurrentCall(p) == proc[p].todo[1]

InitConcurrent ==
    /\ ctorMaxAge = 1 * Second
    /\ ctorInterval = 1 * Second
    /\ maxDataPoints = NewMetricHistoryBuffer(ctorMaxAge, ctorInterval)
    /\ buffers = <<>>
    /\ appended = <<>>
    /\ mu = [writer |-> {}, readers |-> {}]
    /\ proc = [p \in Goroutines |->
                  [todo |-> Programs[p], pc |-> "idle", points |-> <<>>, snaps |-> {},
                   call |-> {}, result |-> {}]]
    /\ alerterMu = {}
    /\ InitIdleAlerter
    /\ InitIdleRates
    /\ InitIdleService
    /\ InitIdleSignal
    /\ InitIdleCollector
    /\ InitIdleConfig

ConcurrentFrame ==
    /\ UNCHANGED <<maxDataPoints, ctorMaxAge, ctorInterval, alerterMu>>
    /\ UNCHANGED <<alerterVars, rateVars, serviceVars, configVars, signalVars, collectorVars>>

\* hb.Lock() of AddDataPoint.
AddLock(p) ==
    /\ proc[p].pc = "idle"
    /\ proc[p].todo # <<>>
    /\ CurrentCall(p).op = "AddDataPoint"
    /\ CanLock(mu)
    /\ mu' = Lock(mu, p)
    /\ proc' = [proc EXCEPT ![p].pc = "locked"]
    /\ UNCHANGED <<buffers, appended>>
    /\ ConcurrentFrame

\* Line 46: the series is read from the map.
AddLoad(p) ==
    /\ proc[p].pc = "locked"
    /\ proc' = [proc EXCEPT ![p].pc = "loaded",
                            ![p].points = LoadSeries(buffers, CurrentCall(p).metric)]
    /\ UNCHANGED <<buffers, appended, mu>>
    /\ ConcurrentFrame

\* Lines 51-56: append, trim, store; the goroutines inside a read call see
\* the new map from now on.
AddStore(p) ==
    /\ proc[p].pc = "loaded"
    /\ LET c == CurrentCall(p)
           bufs == AddDataPoint(WithSeries(buffers, c.metric, proc[p].points),
                                maxDataPoints, c.metric, c.value, c.at)
       IN  /\ buffers' = bufs
           /\ appended' = AppendLog(appended, c.metric, c.value, c.at)
           /\ proc' = [q \in Goroutines |->
                          IF q = p THEN [proc[q] EXCEPT !.pc = "stored", !.points = <<>>]
                          ELSE IF proc[q].pc \in {"called", "rlocked", "read"}
                          THEN [proc[q] EXCEPT !.snaps = @ \cup {bufs}]
                          ELSE proc[q]]
    /\ UNCHANGED mu
    /\ ConcurrentFrame

\* The deferred hb.Unlock() and the return of AddDataPoint.
AddUnlock(p) ==
    /\ proc[p].pc = "stored"
    /\ mu' = Unlock(mu, p)
    /\ proc' = [proc EXCEPT ![p].pc = "idle", ![p].todo = Tail(@)]
    /\ UNCHANGED <<buffers, appended>>
    /\ ConcurrentFrame

\* A read method is called.
ReadCall(p) ==
    /\ proc[p].pc = "idle"
    /\ proc[p].todo # <<>>
    /\ CurrentCall(p).op \in ReadOps
    /\ proc' = [proc EXCEPT ![p].pc = "called", ![p].snaps = {buffers},
                            ![p].call = {}, ![p].result = {}]
    /\ UNCHANGED <<buffers, appended, mu>>
    /\ ConcurrentFrame

\* hb.RLock()
ReadRLock(p) ==
    /\ proc[p].pc = "called"
    /\ CanRLock(mu)
    /\ mu' = RLock(mu, p)
    /\ proc' = [proc EXCEPT ![p].pc = "rlocked"]
    /\ UNCHANGED <<buffers, appended>>
    /\ ConcurrentFrame

\* The body of the read method.
ReadBody(p) ==
    /\ proc[p].pc = "rlocked"
    /\ proc' = [proc EXCEPT ![p].pc = "read", ![p].points = ReadOf(CurrentCall(p), buffers)]
    /\ UNCHANGED <<buffers, appended, mu>>
    /\ ConcurrentFrame

\* The deferred hb.RUnlock() and the return of the read method.
ReadRUnlock(p) ==
    /\ proc[p].pc = "read"
    /\ mu' = RUnlock(mu, p)
    /\ proc' = [proc EXCEPT ![p].pc = "idle", ![p].todo = Tail(@), ![p].points = <<>>,
                            ![p].call = {CurrentCall(p)}, ![p].result = {proc[p].points}]
    /\ UNCHANGED <<buffers, appended>>
    /\ ConcurrentFrame

\* notifierInstance.Send is entered.
SendStart(p) ==
    /\ proc[p].pc = "idle"
    /\ proc[p].todo # <<>>
    /\ CurrentCall(p).op = "Send"
    /\ proc' = [proc EXCEPT ![p].pc = "sending"]
    /\ UNCHANGED <<buffers, appended, mu>>
    /\ ConcurrentFrame

\* Send returns, if it ever does.
SendReturn(p) ==
    /\ proc[p].pc = "sending"
    /\ proc' = [proc EXCEPT ![p].pc = "idle", ![p].todo = Tail(@)]
    /\ UNCHANGED <<buffers, appended, mu>>
    /\ ConcurrentFrame

NextConcurrent ==
    \E p \in Goroutines :
        \/ AddLock(p) \/ AddLoad(p) \/ AddStore(p) \/ AddUnlock(p)
        \/ ReadCall(p) \/ ReadRLock(p) \/ ReadBody(p) \/ ReadRUnlock(p)
        \/ SendStart(p) \/ SendReturn(p)

SpecConcurrent == InitConcurrent /\ [][NextConcurrent]_vars

-----------------------------------------------------------------------------
(* internal/config and internal/util: what LoadConfig does with one entry of *)
(* alerts, and Evaluate called on the loaded rule.  A duration string is a   *)
(* sequence of characters.                                                   *)

MaxEvalLen == 3

Digits == {"0", "1", "2", "3", "4", "5", "6", "7", "8", "9"}

DigitValue(c) ==
    CASE c = "0" -> 0 [] c = "1" -> 1 [] c = "2" -> 2 [] c = "3" -> 3 [] c = "4" -> 4
      [] c = "5" -> 5 [] c = "6" -> 6 [] c = "7" -> 7 [] c = "8" -> 8 [] c = "9" -> 9

\* strings.ToLower on the characters of a duration string.
LowerChar(c) ==
    CASE c = "S" -> "s" [] c = "M" -> "m" [] c = "H" -> "h" [] OTHER -> c

RECURSIVE Atoi(_, _)
\* strconv.Atoi of the first n characters, all digits.
Atoi(chars, n) == IF n = 0 THEN 0 ELSE Atoi(chars, n - 1) * 10 + DigitValue(chars[n])

\* The strings ParseDurationString takes for zero without parsing them.
ZeroDurationStrs == {<<>>, <<"0">>, <<"0", "s">>, <<"0", "m">>, <<"0", "h">>}

\* (time.Duration, error): ^(\d+)([smh])$ on the lowercased string.
ParseDurationString(durationStr) ==
    IF durationStr \in ZeroDurationStrs THEN [d |-> 0, err |-> "nil"]
    ELSE LET lower == [i \in 1..Len(durationStr) |-> LowerChar(durationStr[i])]
             n == Len(lower)
         IN  IF n < 2 \/ (\E i \in 1..(n - 1) : lower[i] \notin Digits)
                      \/ lower[n] \notin {"s", "m", "h"}
             THEN [d |-> 0, err |-> "invalid duration string format"]
             ELSE LET durationUnit == CASE lower[n] = "s" -> Second
                                        [] lower[n] = "m" -> 60 * Second
                                        [] lower[n] = "h" -> 3600 * Second
                  IN  [d |-> Atoi(lower, n - 1) * durationUnit, err |-> "nil"]

\* One entry of alerts as yaml.Unmarshal leaves it: Duration is not set yet.
YamlAlert(name, metric, condition, threshold, durationStr, aggregation, channels) ==
    [Name |-> name, Metric |-> metric, Condition |-> condition, Threshold |-> threshold,
     DurationStr |-> durationStr, Aggregation |-> aggregation, Channels |-> channels]

\* config.go 89-113 for one rule: rejected with the error's reason, or
\* accepted with the rule as NewAlerter receives it.
LoadAlert(rule) ==
    IF rule.Name = "" THEN [status |-> "rejected", err |-> "missing name"]
    ELSE IF rule.Metric = "" THEN [status |-> "rejected", err |-> "missing metric"]
    ELSE IF ToLower(rule.Aggregation) \notin {"average", "max", ""}
    THEN [status |-> "rejected", err |-> "invalid aggregation"]
    ELSE IF rule.DurationStr # <<>> /\ ParseDurationString(rule.DurationStr).err # "nil"
    THEN [status |-> "rejected", err |-> "invalid duration"]
    ELSE IF Len(rule.Channels) = 0
    THEN [status |-> "rejected", err |-> "no notification channels"]
    ELSE [status |-> "accepted",
          rule |-> AlertRuleConfig(rule.Name, rule.Metric, rule.Condition, rule.Threshold,
                                   IF rule.DurationStr # <<>>
                                   THEN ParseDurationString(rule.DurationStr).d ELSE 0,
                                   rule.Aggregation, rule.Channels)]

ConfigConditions == {">", "<", ">=", "<=", "=", "!=", "=>", ""}

ConfigAggregations == {"average", "max", "", "Max", "median"}

ConfigDurationStrs ==
    {<<>>, <<"0", "s">>, <<"1", "s">>, <<"1", "0", "S">>, <<"1", "m">>, <<"1", "x">>,
     <<"s">>, <<"2">>}

ConfigAlerts ==
    { YamlAlert(name, metric, condition, 50, durationStr, aggregation, channels) :
        name \in {"", "high_cpu"}, metric \in {"", "cpu"}, condition \in ConfigConditions,
        durationStr \in ConfigDurationStrs, aggregation \in ConfigAggregations,
        channels \in {<<>>, <<"stdout">>} }

EvalValues == {40, 50, 60}

\* The points Evaluate is called with: up to MaxEvalLen samples a second apart.
EvalPoints ==
    UNION { { [i \in 1..n |-> DataPoint(i * Second, vs[i])] : vs \in [1..n -> EvalValues] } :
            n \in 0..MaxEvalLen }

InitConfig ==
    /\ cfgAlert \in ConfigAlerts
    /\ loadResult = [status |-> "pending"]
    /\ evalPoints = <<>>
    /\ evalResult = {}
    /\ InitIdleBuffer
    /\ InitIdleAlerter
    /\ InitIdleRates
    /\ InitIdleService
    /\ InitIdleLocks
    /\ InitIdleSignal
    /\ InitIdleCollector

CallLoadConfig ==
    /\ loadResult.status = "pending"
    /\ loadResult' = LoadAlert(cfgAlert)
    /\ UNCHANGED <<cfgAlert, evalPoints, evalResult>>
    /\ UNCHANGED <<bufferVars, alerterVars, rateVars, serviceVars>>
    /\ UNCHANGED <<lockVars, signalVars, collectorVars>>

CallEvaluate ==
    /\ loadResult.status = "accepted"
    /\ evalResult = {}
    /\ \E points \in EvalPoints :
          /\ evalPoints' = points
          /\ evalResult' = {Evaluate(loadResult.rule, points)}
    /\ UNCHANGED <<cfgAlert, loadResult>>
    /\ UNCHANGED <<bufferVars, alerterVars, rateVars, serviceVars>>
    /\ UNCHANGED <<lockVars, signalVars, collectorVars>>

NextConfig == CallLoadConfig \/ CallEvaluate

SpecConfig == InitConfig /\ [][NextConfig]_vars

-----------------------------------------------------------------------------
(* internal/collector: the rate calculations of the network and the disk     *)
(* collector.  The counters are unsigned integers of CounterBits bits (64 in *)
(* the program): every subtraction, addition and multiplication on them is   *)
(* taken modulo 2^CounterBits.  A rate is the exact quotient of the delta by *)
(* the elapsed time, a fraction of bytes per second in lowest terms.         *)

CounterBits == 12

sectorSize == 512

RECURSIVE Pow2(_)
Pow2(n) == IF n = 0 THEN 1 ELSE 2 * Pow2(n - 1)

Modulus == Pow2(CounterBits)

\* math.MaxUint64, at the width of the model.
MaxUint64 == Modulus - 1

NetworkStats(pair) == [TotalRecvBytes |-> pair[1], TotalSentBytes |-> pair[2]]

DiskStats(pair) == [TotalSectorsRead |-> pair[1], TotalSectorsWritten |-> pair[2]]

\* The delta of the first version of the network collector: the current
\* counter itself after a wrap.
WrapDelta_FromZero(prev, curr) ==
    IF curr >= prev THEN (curr - prev) % Modulus ELSE curr

\* network.go 228-233: curr - prev, or (MaxUint64 - prev) + curr + 1 after a wrap.
WrapDelta(prev, curr) ==
    IF curr >= prev
    THEN (curr - prev) % Modulus
    ELSE ((MaxUint64 - prev) + curr + 1) % Modulus

\* float64(delta) / elapsedSeconds, with elapsedSeconds given in milliseconds.
PerSecond(delta, elapsed) == Rat(delta * Second, elapsed)

CalculateNetworkIORates(prev, curr, elapsed) ==
    IF elapsed <= 0
    THEN [recvBytesPs |-> ZeroValue, sentBytesPs |-> ZeroValue]
    ELSE LET deltaRecvBytes == WrapDelta(prev.TotalRecvBytes, curr.TotalRecvBytes)
             deltaSentBytes == WrapDelta(prev.TotalSentBytes, curr.TotalSentBytes)
         IN  [recvBytesPs |-> PerSecond(deltaRecvBytes, elapsed),
              sentBytesPs |-> PerSecond(deltaSentBytes, elapsed)]

\* part_007 100-109: curr - prev, replaced by curr when curr < prev.
SectorDelta(prev, curr) ==
    LET delta == (curr - prev) % Modulus
    IN  IF curr < prev THEN curr ELSE delta

CalculateDiskIORates(prev, curr, elapsed) ==
    IF elapsed <= 0
    THEN [readBytesPs |-> ZeroValue, writeBytesPs |-> ZeroValue]
    ELSE LET deltaSectorsRead    == SectorDelta(prev.TotalSectorsRead, curr.TotalSectorsRead)
             deltaSectorsWritten == SectorDelta(prev.TotalSectorsWritten, curr.TotalSectorsWritten)
         IN  [readBytesPs  |-> PerSecond((deltaSectorsRead * sectorSize) % Modulus, elapsed),
              writeBytesPs |-> PerSecond((deltaSectorsWritten * sectorSize) % Modulus, elapsed)]

(* The two calculations called with any two counter pairs and any elapsed    *)
(* time, as the collector and the tests call them.                           *)

CounterValues == {0, 1, 2000, MaxUint64 - 1000, MaxUint64}

ElapsedChoices == {0 - Second, 0, 1 * Second, 2 * Second}

InitRates ==
    /\ prevStats \in CounterValues \X CounterValues
    /\ currStats \in CounterValues \X CounterValues
    /\ elapsedMs \in ElapsedChoices
    /\ netRates = {}
    /\ diskRates = {}
    /\ InitIdleBuffer
    /\ InitIdleAlerter
    /\ InitIdleService
    /\ InitIdleLocks
    /\ InitIdleSignal
    /\ InitIdleCollector
    /\ InitIdleConfig

CallCalculateNetworkIORates ==
    /\ netRates = {}
    /\ netRates' = {CalculateNetworkIORates(NetworkStats(prevStats), NetworkStats(currStats),
                                            elapsedMs)}
    /\ UNCHANGED <<prevStats, currStats, elapsedMs, diskRates>>
    /\ UNCHANGED <<bufferVars, alerterVars, serviceVars, configVars>>
    /\ UNCHANGED <<lockVars, signalVars, collectorVars>>

CallCalculateDiskIORates ==
    /\ diskRates = {}
    /\ diskRates' = {CalculateDiskIORates(DiskStats(prevStats), DiskStats(currStats), elapsedMs)}
    /\ UNCHANGED <<prevStats, currStats, elapsedMs, netRates>>
    /\ UNCHANGED <<bufferVars, alerterVars, serviceVars, configVars>>
    /\ UNCHANGED <<lockVars, signalVars, collectorVars>>

NextRates == CallCalculateNetworkIORates \/ CallCalculateDiskIORates

SpecRates == InitRates /\ [][NextRates]_vars

-----------------------------------------------------------------------------
(* internal/collector: CollectCPUStats, CollectMemoryStats and CollectAll.   *)
(* What a collector reads from /proc is an input: {} when the read fails,    *)
(* {reading} when it succeeds.  Percentages are exact fractions with a sign. *)

\* The value a call returned, from the set that holds it.
Returned(result) == CHOOSE r \in result : TRUE

MinElapsedMilliseconds == 100     \* elapsedSeconds > 0.1

\* The float64 n / d for an integer n and a natural d > 0.
SignedRat(n, d) == IF n < 0 THEN <<0 - Rat(0 - n, d)[1], Rat(0 - n, d)[2]>> ELSE Rat(n, d)

\* CollectCPUStats without the caps at 0 and 100.
ClampPercent_None(q) == q

\* cpu.go 128-129: if cpuUsage < 0 { cpuUsage = 0.0 }; if cpuUsage > 100 { cpuUsage = 100.0 }
ClampPercent(q) ==
    IF q[1] < 0 THEN <<0, 1>>
    ELSE IF q[1] > 100 * q[2] THEN <<100, 1>>
    ELSE q

\* CollectCPUStats(elapsedHint) when getCPUTimes returns reading = <<total, idle>>
\* and prev = <<prevCPUTotal, prevCPUIdle>>: the metrics and the new prev.
CollectCPUStats(prev, reading, elapsedHint) ==
    IF prev[1] = 0 /\ prev[2] = 0 /\ elapsedHint <= 0
    THEN [metrics |-> [cpu_percent_total |-> ZeroValue], prev |-> reading]
    ELSE LET deltaTotal == (reading[1] - prev[1]) % Modulus
             deltaIdle  == (reading[2] - prev[2]) % Modulus
         IN  [metrics |->
                 [cpu_percent_total |->
                     IF deltaTotal = 0 THEN ZeroValue
                     ELSE ClampPercent(SignedRat((deltaTotal - deltaIdle) * 100, deltaTotal))],
              prev |-> reading]

MemInfo(total, free, available, swapTotal, swapFree) ==
    [MemTotal |-> total, MemFree |-> free, MemAvailable |-> available,
     SwapTotal |-> swapTotal, SwapFree |-> swapFree]

\* CollectMemoryStats when parseMemInfo returns memInfo.
CollectMemoryStats(memInfo) ==
    LET mem == IF memInfo.MemTotal > 0
               THEN [mem_percent_used |->
                        IF memInfo.MemAvailable > 0
                        THEN SignedRat((memInfo.MemTotal - memInfo.MemAvailable) * 100,
                                       memInfo.MemTotal)
                        ELSE SignedRat((memInfo.MemTotal - memInfo.MemFree) * 100,
                                       memInfo.MemTotal),
                     mem_percent_free |-> Rat(memInfo.MemAvailable * 100, memInfo.MemTotal)]
               ELSE [mem_percent_used |-> ZeroValue, mem_percent_free |-> ZeroValue]
        swapUsed == (memInfo.SwapTotal - memInfo.SwapFree) % Modulus
        swap == IF memInfo.SwapTotal > 0
                THEN [swap_percent_used |-> Rat(swapUsed * 100, memInfo.SwapTotal),
                      swap_percent_free |-> Rat(memInfo.SwapFree * 100, memInfo.SwapTotal)]
                ELSE [swap_percent_used |-> ZeroValue, swap_percent_free |-> ZeroValue]
    IN  [k \in DOMAIN mem \cup DOMAIN swap |-> IF k \in DOMAIN mem THEN mem[k] ELSE swap[k]]

\* for k, v := range metrics { allMetrics[k] = v }
MergeMetrics(all, metrics) ==
    [k \in DOMAIN all \cup DOMAIN metrics |-> IF k \in DOMAIN metrics THEN metrics[k] ELSE all[k]]

\* A rate is calculated whatever the elapsed time.
ElapsedUsable_Always(elapsed) == TRUE

\* elapsedSeconds > 0.1
ElapsedUsable(elapsed) == elapsed > MinElapsedMilliseconds * Millisecond

\* collector.go 57-62
ElapsedSince(lastCollectTime, now) ==
    IF lastCollectTime = ZeroTime THEN 0 ELSE now - lastCollectTime

\* collector.go 86-99: the disk metrics when GetDiskStats succeeds.
DiskMetrics(lastDiskStats, currentDiskStats, elapsed) ==
    IF lastDiskStats # {} /\ ElapsedUsable(elapsed)
    THEN LET r == CalculateDiskIORates(Returned(lastDiskStats), currentDiskStats, elapsed)
         IN  [disk_read_bytes_ps |-> r.readBytesPs, disk_write_bytes_ps |-> r.writeBytesPs]
    ELSE [disk_read_bytes_ps |-> ZeroValue, disk_write_bytes_ps |-> ZeroValue]

\* collector.go 102-115: the network metrics when GetNetworkStats succeeds.
NetworkMetrics(lastNetworkStats, currentNetStats, elapsed) ==
    IF lastNetworkStats # {} /\ ElapsedUsable(elapsed)
    THEN LET r == CalculateNetworkIORates(Returned(lastNetworkStats), currentNetStats, elapsed)
         IN  [net_recv_bytes_ps |-> r.recvBytesPs, net_sent_bytes_ps |-> r.sentBytesPs]
    ELSE [net_recv_bytes_ps |-> ZeroValue, net_sent_bytes_ps |-> ZeroValue]

\* CollectAll at time now on the collector g with the CPU collector's prev,
\* when the four reads return rd: the map returned (the error is always nil),
\* the collector and the CPU collector's prev after the call.
CollectAll(g, prev, rd, now) ==
    LET elapsed == ElapsedSince(g.lastCollectTime, now)
        cpu  == IF rd.cpu = {} THEN [metrics |-> <<>>, prev |-> prev]
                ELSE CollectCPUStats(prev, Returned(rd.cpu), elapsed)
        mem  == IF rd.mem = {} THEN <<>> ELSE CollectMemoryStats(Returned(rd.mem))
        disk == IF rd.disk = {} THEN <<>>
                ELSE DiskMetrics(g.lastDiskStats, Returned(rd.disk), elapsed)
        net  == IF rd.net = {} THEN <<>>
                ELSE NetworkMetrics(g.lastNetworkStats, Returned(rd.net), elapsed)
    IN  [allMetrics |-> MergeMetrics(MergeMetrics(MergeMetrics(cpu.metrics, mem), disk), net),
         gc |-> [lastDiskStats |-> IF rd.disk = {} THEN g.lastDiskStats ELSE rd.disk,
                 lastNetworkStats |-> IF rd.net = {} THEN g.lastNetworkStats ELSE rd.net,
                 lastCollectTime |-> now],
         prevCPU |-> cpu.prev]

(* CollectAll called again and again, each time 100ms or 1s after the call  *)
(* before, with reads that fail or return one of a few counter values;  *)
(* and the two rate calculations called directly with an elapsed time that   *)
(* is not positive, as the tests call them.                                  *)

MaxCollections == 3

CollectDelays == {100 * Millisecond, 1 * Second}

OrFails(readings) == {{}} \cup {{r} : r \in readings}

CPUReadings == {<<1000, 400>>}

MemReadings == {MemInfo(4, 1, 2, 2, 1)}

DiskReadings == {DiskStats(<<0, 0>>), DiskStats(<<2, 1>>)}

NetReadings == {NetworkStats(<<0, 0>>), NetworkStats(<<2000, 1000>>)}

Readings ==
    [cpu : OrFails(CPUReadings), mem : OrFails(MemReadings),
     disk : OrFails(DiskReadings), net : OrFails(NetReadings)]

InitCollector ==
    /\ prevStats = <<1, 2000>>
    /\ currStats = <<2000, 1>>
    /\ elapsedMs \in {0 - Second, 0}
    /\ netRates = {}
    /\ diskRates = {}
    /\ InitIdleCollector
    /\ InitIdleBuffer
    /\ InitIdleAlerter
    /\ InitIdleService
    /\ InitIdleLocks
    /\ InitIdleSignal
    /\ InitIdleConfig

\* One call of gc.CollectAll().
CallCollectAll ==
    /\ ticks < MaxCollections
    /\ ticks' = ticks + 1
    /\ \E delay \in CollectDelays, rd \in Readings :
          \E r \in {CollectAll(gc, prevCPU, rd, clock + delay)} :
              /\ clock' = clock + delay
              /\ gc' = r.gc
              /\ prevCPU' = r.prevCPU
              /\ allMetrics' = r.allMetrics
              /\ snapTimes' = [disk |-> IF rd.disk = {} THEN snapTimes.disk ELSE clock + delay,
                               net  |-> IF rd.net = {} THEN snapTimes.net ELSE clock + delay]
    /\ UNCHANGED <<rules, ruleState, events, sent, pc, lastType, prevType, lastCycle>>
    /\ UNCHANGED <<bufferVars, rateVars, serviceVars, configVars, lockVars, signalVars, instances>>

NextCollector == CallCollectAll \/ CallCalculateNetworkIORates \/ CallCalculateDiskIORates

SpecCollector == InitCollector /\ [][NextCollector]_vars

(* CollectCPUStats called again and again with any counters read from       *)
(* /proc/stat and any elapsed hint; prevStats and currStats keep the         *)
(* counters before the latest call and the ones it read.                     *)

MaxCPUCalls == 2

CPUCounters == {0, 1, 1000, MaxUint64}

ElapsedHints == {0, 1 * Second}

InitCPU ==
    /\ InitIdleRates
    /\ InitIdleCollector
    /\ InitIdleBuffer
    /\ InitIdleAlerter
    /\ InitIdleService
    /\ InitIdleLocks
    /\ InitIdleSignal
    /\ InitIdleConfig

CallCollectCPUStats ==
    /\ ticks < MaxCPUCalls
    /\ ticks' = ticks + 1
    /\ \E reading \in CPUCounters \X CPUCounters, elapsedHint \in ElapsedHints :
          \E r \in {CollectCPUStats(prevCPU, reading, elapsedHint)} :
              /\ prevStats' = prevCPU
              /\ currStats' = reading
              /\ elapsedMs' = elapsedHint
              /\ prevCPU' = r.prev
              /\ allMetrics' = r.metrics
    /\ UNCHANGED <<gc, snapTimes, netRates, diskRates>>
    /\ UNCHANGED <<rules, ruleState, events, sent, clock, pc, lastType, prevType, lastCycle>>
    /\ UNCHANGED <<bufferVars, serviceVars, configVars, lockVars, signalVars, instances>>

\* getCPUTimes fails: CollectCPUStats returns the error and changes nothing.
CollectCPUStatsFails ==
    /\ ticks < MaxCPUCalls
    /\ ticks' = ticks + 1
    /\ allMetrics' = <<>>
    /\ UNCHANGED <<gc, prevCPU, snapTimes>>
    /\ UNCHANGED <<rules, ruleState, events, sent, clock, pc, lastType, prevType, lastCycle>>
    /\ UNCHANGED <<bufferVars, rateVars, serviceVars, configVars, lockVars, signalVars, instances>>

NextCPU == CallCollectCPUStats \/ CollectCPUStatsFails

SpecCPU == InitCPU /\ [][NextCPU]_vars

(* Two GlobalCollector instances in one process, each calling CollectAll     *)
(* at its own times.  Each has its own lastDiskStats, lastNetworkStats and   *)
(* lastCollectTime; prevCPUTotal and prevCPUIdle are variables of the        *)
(* package.  The memory, disk and network reads succeed with fixed values.   *)

MaxInstanceCalls == 3

CollectorInstances == {"first", "second"}

InstanceCPUReadings == {<<1000, 400>>, <<2000, 900>>, <<3000, 1100>>}

InstanceReadings ==
    [cpu : OrFails(InstanceCPUReadings), mem : {{MemInfo(4, 1, 2, 2, 1)}},
     disk : {{DiskStats(<<0, 0>>)}}, net : {{NetworkStats(<<0, 0>>)}}]

\* NewGlobalCollector
NewGlobalCollector ==
    [lastDiskStats |-> {}, lastNetworkStats |-> {}, lastCollectTime |-> ZeroTime]

InitInstances ==
    /\ gc = NewGlobalCollector
    /\ prevCPU = <<0, 0>>
    /\ allMetrics = <<>>
    /\ snapTimes = [disk |-> ZeroTime, net |-> ZeroTime]
    /\ instances = [of |-> [i \in CollectorInstances |-> [gc |-> NewGlobalCollector, own |-> {}]],
                    caller |-> "none"]
    /\ InitIdleRates
    /\ InitIdleBuffer
    /\ InitIdleAlerter
    /\ InitIdleService
    /\ InitIdleLocks
    /\ InitIdleSignal
    /\ InitIdleConfig

\* One of the instances calls CollectAll, a second after the latest call.
InstanceCollectAll ==
    /\ ticks < MaxInstanceCalls
    /\ ticks' = ticks + 1
    /\ clock' = clock + 1 * Second
    /\ \E i \in CollectorInstances, rd \in InstanceReadings :
          \E r \in {CollectAll(instances.of[i].gc, prevCPU, rd, clock + 1 * Second)} :
              /\ prevCPU' = r.prevCPU
              /\ allMetrics' = r.allMetrics
              /\ instances' = [of |-> [instances.of EXCEPT
                                          ![i] = [gc |-> r.gc,
                                                  own |-> IF rd.cpu = {} THEN @.own ELSE rd.cpu]],
                               caller |-> i]
    /\ UNCHANGED <<gc, snapTimes>>
    /\ UNCHANGED <<rules, ruleState, events, sent, pc, lastType, prevType, lastCycle>>
    /\ UNCHANGED <<bufferVars, rateVars, serviceVars, configVars, lockVars, signalVars>>

NextInstances == InstanceCollectAll

SpecInstances == InitInstances /\ [][NextInstances]_vars

-----------------------------------------------------------------------------
(* CheckAndNotify statement by statement, with a second goroutine calling    *)
(* GetCurrentActiveAlerts at any time.  main's position is pc; proc.main     *)
(* holds the loop variables of CheckAndNotify (the rule being evaluated, the *)
(* event and the channel being notified, and as history the order in which   *)
(* rules were evaluated in this call); proc.saver is the second goroutine.   *)
(* sent is the list of Send calls of this CheckAndNotify, each with the      *)
(* error it returned.                                                        *)

MaxNotifyCycles == 2

NotifyRules ==
    << AlertRuleConfig("cpu_now", "cpu", ">", 0, 0, "", <<"email", "pager", "stdout">>),
       AlertRuleConfig("mem_now", "mem", ">", 0, 0, "", <<"stdout">>),
       AlertRuleConfig("cpu_avg", "cpu", ">", 0, 1 * Second, "average", <<"pager", "email">>) >>

SendErrors == {"nil", "failed"}

\* events = append(events, AlertEvent{...}) with the new event put first.
AppendEvents_Prepend(evs, new) == new \o evs

\* events = append(events, AlertEvent{...})
AppendEvents(evs, new) == evs \o new

\* sendNotificationsForRule returning to a CheckAndNotify that returns, when
\* Send failed.
AfterSend_ReturnOnError(position, evs, err) ==
    IF err = "nil" THEN [position EXCEPT !.channel = @ + 1]
    ELSE [position EXCEPT !.event = Len(evs) + 1, !.channel = 1]

\* Lines 167-172: the error of Send is logged; the loop goes on to the next
\* channel.
AfterSend(position, evs, err) == [position EXCEPT !.channel = @ + 1]

\* sync.Mutex: Lock waits until nobody holds the mutex.
MutexFree(m) == m = {}

InitNotify ==
    /\ ctorInterval = 1 * Second
    /\ rules = NotifyRules
    /\ ctorMaxAge = GetMaxConfiguredDuration(rules, ctorInterval)
    /\ maxDataPoints = NewMetricHistoryBuffer(ctorMaxAge, ctorInterval)
    /\ buffers = <<>>
    /\ appended = <<>>
    /\ ruleState = [i \in 1..Len(rules) |-> NewAlertRule]
    /\ events = <<>>
    /\ sent = <<>>
    /\ clock = 0
    /\ pc = "start"
    /\ ticks = 0
    /\ lastType = [i \in 1..Len(rules) |-> "NONE"]
    /\ prevType = [i \in 1..Len(rules) |-> "NONE"]
    /\ lastCycle = [i \in 1..Len(rules) |->
                        [outcome |-> "none", wasActive |-> FALSE, seen |-> FALSE]]
    /\ mu = [writer |-> {}, readers |-> {}]
    /\ alerterMu = {}
    /\ proc = [main  |-> [rule |-> 1, event |-> 1, channel |-> 1, order |-> <<>>],
               saver |-> [pc |-> "idle", result |-> {}]]
    /\ InitIdleRates
    /\ InitIdleService
    /\ InitIdleSignal
    /\ InitIdleCollector
    /\ InitIdleConfig

NotifyFrame ==
    /\ UNCHANGED <<maxDataPoints, ctorMaxAge, ctorInterval, rules, mu>>
    /\ UNCHANGED <<rateVars, serviceVars, configVars, signalVars, collectorVars>>

\* main: CollectAll and the AddDataPoint calls of the initial collection or
\* of a tick, up to the call of CheckAndNotify.
NotifyCollect ==
    /\ pc \in {"start", "loop"}
    /\ ticks < MaxNotifyCycles
    /\ ticks' = ticks + 1
    /\ pc' = "lock"
    /\ clock' = IF pc = "start" THEN clock ELSE clock + ctorInterval
    /\ \E collected \in CollectedMetrics(Metrics) :
          /\ buffers' = AddAll(buffers, maxDataPoints, collected, DOMAIN collected, clock')
          /\ appended' = LogAll(appended, collected, DOMAIN collected, clock')
    /\ UNCHANGED <<ruleState, events, sent, lastType, prevType, lastCycle, proc, alerterMu>>
    /\ NotifyFrame

\* Lines 61-64: a.mu.Lock(); var events []AlertEvent
NotifyLock ==
    /\ pc = "lock"
    /\ MutexFree(alerterMu)
    /\ alerterMu' = alerterMu \cup {"main"}
    /\ pc' = "rules"
    /\ events' = <<>>
    /\ sent' = <<>>
    /\ proc' = [proc EXCEPT !.main = [rule |-> 1, event |-> 1, channel |-> 1, order |-> <<>>]]
    /\ UNCHANGED <<buffers, appended, ruleState, clock, ticks, lastType, prevType, lastCycle>>
    /\ NotifyFrame

\* Lines 66-130: one iteration of the loop over a.rules; after the last one
\* the loop over the events begins.
NotifyRule ==
    /\ pc = "rules"
    /\ \E i \in {proc.main.rule} :
          \E r \in {CheckRule(i, rules[i], ruleState[i], buffers, clock)} :
              /\ ruleState' = [ruleState EXCEPT ![i] = r.state]
              /\ events' = AppendEvents(events, r.events)
              /\ lastCycle' = [lastCycle EXCEPT ![i] =
                                  [outcome |-> r.outcome, wasActive |-> ruleState[i].IsActive,
                                   seen |-> @.seen \/ r.outcome = "evaluated"]]
              /\ proc' = [proc EXCEPT !.main.rule = i + 1, !.main.order = Append(@, i)]
              /\ pc' = IF i = Len(rules) THEN "send" ELSE "rules"
    /\ UNCHANGED <<buffers, appended, sent, clock, ticks, lastType, prevType, alerterMu>>
    /\ NotifyFrame

\* The channel the loops of lines 136-138 and 143 are at.
CurrentChannel == rules[events[proc.main.event].Rule].Channels[proc.main.channel]

AtChannel ==
    /\ pc = "send"
    /\ proc.main.event <= Len(events)
    /\ proc.main.channel <= Len(rules[events[proc.main.event].Rule].Channels)

\* Line 143 after the last channel of the event: sendNotificationsForRule
\* returns and the loop of line 136 takes the next event.
NotifyNextEvent ==
    /\ pc = "send"
    /\ proc.main.event <= Len(events)
    /\ proc.main.channel > Len(rules[events[proc.main.event].Rule].Channels)
    /\ proc' = [proc EXCEPT !.main.event = @ + 1, !.main.channel = 1]
    /\ UNCHANGED <<buffers, appended, ruleState, events, sent, clock, pc, ticks,
                   lastType, prevType, lastCycle, alerterMu>>
    /\ NotifyFrame

\* Lines 144-148: the channel has no notifier: a warning, then continue.
NotifySkip ==
    /\ AtChannel
    /\ CurrentChannel \notin Notifiers
    /\ proc' = [proc EXCEPT !.main.channel = @ + 1]
    /\ UNCHANGED <<buffers, appended, ruleState, events, sent, clock, pc, ticks,
                   lastType, prevType, lastCycle, alerterMu>>
    /\ NotifyFrame

\* Line 167: notifierInstance.Send(data, a.templates) is called.
NotifySendStart ==
    /\ AtChannel
    /\ CurrentChannel \in Notifiers
    /\ pc' = "sending"
    /\ UNCHANGED <<buffers, appended, ruleState, events, sent, clock, ticks,
                   lastType, prevType, lastCycle, proc, alerterMu>>
    /\ NotifyFrame

\* Lines 167-172: Send returns, with an error or without.
NotifySendReturn ==
    /\ pc = "sending"
    /\ pc' = "send"
    /\ \E err \in SendErrors :
          /\ sent' = Append(sent, [Rule |-> events[proc.main.event].Rule,
                                   State |-> events[proc.main.event].Type,
                                   Channel |-> CurrentChannel,
                                   Time |-> events[proc.main.event].Timestamp,
                                   MetricValue |-> events[proc.main.event].MetricValue,
                                   err |-> err])
          /\ \E next \in {AfterSend([event |-> proc.main.event,
                                     channel |-> proc.main.channel], events, err)} :
                proc' = [proc EXCEPT !.main.event = next.event, !.main.channel = next.channel]
    /\ UNCHANGED <<buffers, appended, ruleState, events, clock, ticks,
                   lastType, prevType, lastCycle, alerterMu>>
    /\ NotifyFrame

\* Lines 62, 139-140: after the last event CheckAndNotify returns and the
\* deferred a.mu.Unlock() runs.
NotifyReturn ==
    /\ pc = "send"
    /\ proc.main.event > Len(events)
    /\ pc' = "loop"
    /\ alerterMu' = alerterMu \ {"main"}
    /\ UNCHANGED <<buffers, appended, ruleState, events, sent, clock, ticks,
                   lastType, prevType, lastCycle, proc>>
    /\ NotifyFrame

SaverFrame ==
    /\ UNCHANGED <<buffers, appended, ruleState, events, sent, clock, pc, ticks,
                   lastType, prevType, lastCycle>>
    /\ NotifyFrame

\* The second goroutine calls GetCurrentActiveAlerts and reaches a.mu.Lock().
SaverCall ==
    /\ proc.saver.pc = "idle"
    /\ proc' = [proc EXCEPT !.saver.pc = "waiting"]
    /\ UNCHANGED alerterMu
    /\ SaverFrame

\* Line 178: a.mu.Lock() returns.
SaverLock ==
    /\ proc.saver.pc = "waiting"
    /\ MutexFree(alerterMu)
    /\ alerterMu' = alerterMu \cup {"saver"}
    /\ proc' = [proc EXCEPT !.saver.pc = "locked"]
    /\ SaverFrame

\* Lines 179-187: the map of active rules is built and returned; the
\* deferred a.mu.Unlock() runs.
SaverReturn ==
    /\ proc.saver.pc = "locked"
    /\ alerterMu' = alerterMu \ {"saver"}
    /\ proc' = [proc EXCEPT !.saver.pc = "idle",
                            !.saver.result = {GetCurrentActiveAlerts(rules, ruleState)}]
    /\ SaverFrame

NextNotify ==
    \/ NotifyCollect
    \/ NotifyLock
    \/ NotifyRule
    \/ NotifyNextEvent
    \/ NotifySkip
    \/ NotifySendStart
    \/ NotifySendReturn
    \/ NotifyReturn
    \/ SaverCall
    \/ SaverLock
    \/ SaverReturn

SpecNotify == InitNotify /\ [][NextNotify]_vars

-----------------------------------------------------------------------------
(* The main loop running forever.  The code compares timestamps only with    *)
(* the time of the current tick, so the model keeps time relative to it:     *)
(* clock, the time of the current tick, stays at HorizonSeconds, and at each *)
(* tick every stored timestamp moves one interval into the past, down to 0,  *)
(* which is older than every window of the rules.  ticks counts the ticks    *)
(* modulo TickWindow.  The cpu collector may fail at any tick, and from any  *)
(* tick on for ever.                                                         *)

HorizonSeconds == 4

TickWindow == 2

StaleRules ==
    { << AlertRuleConfig("cpu_avg", "cpu", ">", 0, 1 * Second, "average", <<"stdout">>),
         AlertRuleConfig("cpu_now", "cpu", ">", 0, 0, "", <<"stdout">>) >> }

Earlier(t, d) == IF t = ZeroTime THEN ZeroTime ELSE Max(t - d, 0)

EarlierPoints(bufs, d) ==
    [m \in DOMAIN bufs |->
        [k \in 1..Len(bufs[m]) |->
            DataPoint(Earlier(bufs[m][k].Timestamp, d), bufs[m][k].Value)]]

EarlierStates(states, d) ==
    [i \in DOMAIN states |->
        [states[i] EXCEPT !.LastActiveTime = Earlier(@, d),
                          !.LastResolvedTime = Earlier(@, d)]]

InitStale ==
    /\ ctorInterval = 1 * Second
    /\ rules \in StaleRules
    /\ ctorMaxAge = GetMaxConfiguredDuration(rules, ctorInterval)
    /\ maxDataPoints = NewMetricHistoryBuffer(ctorMaxAge, ctorInterval)
    /\ buffers = <<>>
    /\ appended = <<>>
    /\ ruleState = [i \in 1..Len(rules) |-> NewAlertRule]
    /\ events = <<>>
    /\ sent = <<>>
    /\ clock = HorizonSeconds * Second
    /\ pc = "start"
    /\ ticks = 0
    /\ lastType = [i \in 1..Len(rules) |-> "NONE"]
    /\ prevType = [i \in 1..Len(rules) |-> "NONE"]
    /\ lastCycle = [i \in 1..Len(rules) |->
                        [outcome |-> "none", wasActive |-> FALSE, seen |-> FALSE]]
    /\ InitIdleRates
    /\ InitIdleService
    /\ InitIdleLocks
    /\ InitIdleSignal
    /\ InitIdleCollector
    /\ InitIdleConfig

\* The AddDataPoint calls and the CheckAndNotify of a cycle at time clock,
\* the time since the cycle before being elapsed.
StaleCycle(collected, elapsed) ==
    \E bufs \in {AddAll(EarlierPoints(buffers, elapsed), maxDataPoints, collected,
                        DOMAIN collected, clock)} :
        /\ buffers' = bufs
        /\ tickState' = [collected |-> collected, todo |-> {}, signalled |-> FALSE]
        /\ EvaluatedFrom(EarlierStates(ruleState, elapsed), bufs, clock)
        /\ UNCHANGED <<maxDataPoints, ctorMaxAge, ctorInterval, appended, rules, clock>>
        /\ UNCHANGED <<rateVars, serviceVars, configVars>>
        /\ UNCHANGED <<lockVars, shutdownSignal, collectorVars>>

\* Lines 201-215: the initial collection and evaluation pass.
StaleInitialCollection ==
    /\ pc = "start"
    /\ pc' = "loop"
    /\ ticks' = ticks
    /\ \E collected \in CollectedMetrics({"cpu"}) : StaleCycle(collected, 0)

\* Lines 220-240: case <-ticker.C, one interval after the cycle before.
StaleTick ==
    /\ pc = "loop"
    /\ pc' = pc
    /\ ticks' = (ticks + 1) % TickWindow
    /\ \E collected \in CollectedMetrics({"cpu"}) : StaleCycle(collected, ctorInterval)

NextStale == StaleInitialCollection \/ StaleTick

\* main goes from the initial collection to the loop, and the ticker keeps
\* firing: every tick is handled.
TicksGoOn ==
    \/ pc = "start" /\ pc' = "loop" /\ ticks' = ticks
    \/ pc = "loop" /\ pc' = pc /\ ticks' = (ticks + 1) % TickWindow

tickVars == <<pc, ticks>>

SpecStale == InitStale /\ [][NextStale]_vars /\ WF_tickVars(TicksGoOn)

-----------------------------------------------------------------------------
(* Claims about the alerter's state machine *)

RuleIndices == 1..Len(rules)

\* This step is an evaluation cycle: AddDataPoint of the collected metrics
\* followed by CheckAndNotify(clock').
CycleStep == pc # "done" /\ pc' = "loop" /\ (pc = "start" \/ ticks' = ticks + 1)

\* The points the cycle hands to Evaluate for a rule, from the buffer as the
\* cycle finds it.
PointsOf(rule, bufs, now) ==
    IF rule.Duration > 0
    THEN GetDataPointsForDuration(bufs, rule.Metric, rule.Duration, now)
    ELSE IF GetLatestDataPoint(bufs, rule.Metric).exists
         THEN <<GetLatestDataPoint(bufs, rule.Metric).dp>>
         ELSE <<>>

\* C1: the events of a rule alternate, starting with FIRED: never two FIRED
\* without a RESOLVED between them, never two RESOLVED without a FIRED between
\* them, and a cycle emits at most one event per rule.
C1_EventsAlternate ==
    \A i \in RuleIndices :
        /\ Cardinality(EventsOf(events, i)) <= 1
        /\ lastType[i] = "NONE" => prevType[i] = "NONE"
        /\ lastType[i] # "NONE" => lastType[i] # prevType[i]
        /\ prevType[i] = "NONE" => lastType[i] \in {"NONE", "FIRED"}
        /\ prevType[i] = "RESOLVED" => lastType[i] = "FIRED"
        /\ prevType[i] = "FIRED" => lastType[i] = "RESOLVED"

\* A rule has fired, resolved and fired again, and a cycle skipped a rule.
C1_Witness ==
    /\ \E i \in RuleIndices : prevType[i] = "RESOLVED" /\ lastType[i] = "FIRED"
    /\ \E i \in RuleIndices : lastCycle[i].outcome \in {"no_points", "short_span", "error"}

\* C2: in a cycle that evaluates an INACTIVE rule whose condition is met,
\* exactly one FIRED event with the cycle's timestamp and the aggregated value
\* is produced, IsActive becomes true and LastActiveTime and LastValue are set
\* to them; for an ACTIVE rule whose condition is not met, the same with
\* RESOLVED, IsActive false and LastResolvedTime.
C2_TransitionStep ==
    CycleStep =>
        \A i \in RuleIndices :
            LET ev == Evaluate(rules[i], PointsOf(rules[i], buffers', clock'))
                mine == EventsOf(events', i)
            IN  lastCycle'[i].outcome = "evaluated" =>
                  /\ (ev.conditionMet /\ ~ruleState[i].IsActive) =>
                        /\ Cardinality(mine) = 1
                        /\ \A k \in mine :
                              events'[k] = AlertEvent(i, "FIRED", clock', ev.aggregatedValue)
                        /\ ruleState'[i].IsActive
                        /\ ruleState'[i].LastActiveTime = clock'
                        /\ ruleState'[i].LastValue = ev.aggregatedValue
                  /\ (~ev.conditionMet /\ ruleState[i].IsActive) =>
                        /\ Cardinality(mine) = 1
                        /\ \A k \in mine :
                              events'[k] = AlertEvent(i, "RESOLVED", clock', ev.aggregatedValue)
                        /\ ~ruleState'[i].IsActive
                        /\ ruleState'[i].LastResolvedTime = clock'
                        /\ ruleState'[i].LastValue = ev.aggregatedValue

\* C2, over every step of every behaviour.
C2_Transitions == [][C2_TransitionStep]_vars

\* One cycle has fired one rule and resolved another, a duration-based one
\* whose value at resolution differs from the value it fired with.
C2_Witness ==
    /\ \E k \in 1..Len(events) : events[k].Type = "FIRED"
    /\ \E k \in 1..Len(events) :
          /\ events[k].Type = "RESOLVED"
          /\ rules[events[k].Rule].Duration > 0
          /\ events[k].MetricValue # <<1, 1>>
          /\ ruleState[events[k].Rule].LastResolvedTime = clock
          /\ ruleState[events[k].Rule].LastActiveTime < clock

\* C3: in a cycle that evaluates a rule whose condition agrees with its state
\* no event is emitted for the rule and its State is unchanged.
C3_NoTransitionStep ==
    CycleStep =>
        \A i \in RuleIndices :
            LET ev == Evaluate(rules[i], PointsOf(rules[i], buffers', clock'))
            IN  (lastCycle'[i].outcome = "evaluated" /\ ev.conditionMet = ruleState[i].IsActive) =>
                  /\ EventsOf(events', i) = {}
                  /\ ruleState'[i] = ruleState[i]

\* C3, over every step of every behaviour, so for as many consecutive cycles
\* as the condition stays the same.
C3_NoRepeat == [][C3_NoTransitionStep]_vars

\* A rule evaluated while active stayed active without an event, on a value
\* other than the one it fired with.
C3_Witness ==
    \E i \in RuleIndices :
        /\ lastCycle[i].outcome = "evaluated"
        /\ lastCycle[i].wasActive
        /\ ruleState[i].IsActive
        /\ EventsOf(events, i) = {}
        /\ ruleState[i].LastActiveTime < clock
        /\ Evaluate(rules[i], PointsOf(rules[i], buffers, clock)).aggregatedValue
              # ruleState[i].LastValue

-----------------------------------------------------------------------------
(* Claims about duration-based rules *)

\* The number of latest consecutive samples of the rule's metric that meet
\* the rule's condition on their own.
RECURSIVE BreachRun(_, _, _)
BreachRun(rule, log, n) ==
    IF n = 0 THEN 0
    ELSE IF Compare(rule.Condition, Rat(log[n].Value, 1), rule.Threshold)
    THEN 1 + BreachRun(rule, log, n - 1)
    ELSE 0

\* The samples that span the rule's duration and the window's slack at one
\* sample per interval.
SamplesToCover(rule) == Ceil(rule.Duration + WindowSlackSeconds * Second, ctorInterval) + 1

\* C4: under regular sampling a duration-based rule whose metric breaches on
\* every sample from some tick on is evaluated and emits FIRED; in finite
\* form: when the last tick of the run has been handled and the latest
\* samples, as many as span the duration and the window's slack, all breach,
\* the rule has fired and is active.
C4_SustainedBreachFires ==
    \A i \in RuleIndices :
        (/\ rules[i].Duration > 0
         /\ "cpu" \in DOMAIN appended
         /\ BreachRun(rules[i], appended["cpu"], Len(appended["cpu"])) >= SamplesToCover(rules[i])
         /\ ticks = MaxRegularTicks)
        => ruleState[i].IsActive

\* C5: a cycle does not evaluate a duration-based rule whose window is empty
\* or whose earliest windowed sample is less than duration - 100ms before now:
\* no event, IsActive unchanged; the first cycle of the process emits nothing
\* for a duration-based rule and leaves it inactive.
C5_SkipStep ==
    CycleStep =>
        \A i \in RuleIndices :
            rules[i].Duration > 0 =>
                LET w == GetDataPointsForDuration(buffers', rules[i].Metric,
                                                  rules[i].Duration, clock')
                IN  /\ (\/ Len(w) = 0
                        \/ clock' - w[1].Timestamp < rules[i].Duration - 100 * Millisecond)
                       => /\ EventsOf(events', i) = {}
                          /\ ruleState'[i].IsActive = ruleState[i].IsActive
                    /\ pc = "start"
                       => /\ EventsOf(events', i) = {}
                          /\ ~ruleState'[i].IsActive

\* C5, over every step of every behaviour.
C5_InsufficientHistorySkipped == [][C5_SkipStep]_vars

\* A rule was skipped on a window of breaching samples that starts 200ms
\* short of its duration.
C5_Witness ==
    \E i \in RuleIndices :
        LET w == GetDataPointsForDuration(buffers, rules[i].Metric, rules[i].Duration, clock)
        IN  /\ rules[i].Duration > 0
            /\ lastCycle[i].outcome = "short_span"
            /\ Len(w) = 2
            /\ clock - w[1].Timestamp = rules[i].Duration - 200 * Millisecond
            /\ Evaluate(rules[i], w).conditionMet
            /\ ~ruleState[i].IsActive
            /\ EventsOf(events, i) = {}

-----------------------------------------------------------------------------
(* Claims about the buffer *)

QueryDurations == {k * Second : k \in 1..MaxDurationSeconds}
QueryTimes == {k * Second : k \in 0..(MaxTs + MaxDurationSeconds + WindowSlackSeconds + 1)}

NonDecreasing(points) ==
    \A i \in 1..Len(points) : \A j \in i..Len(points) :
        points[i].Timestamp <= points[j].Timestamp

\* The indices of points whose timestamp is >= bound.
IndicesFrom(points, bound) == {i \in 1..Len(points) : points[i].Timestamp >= bound}

IsSuffixOf(result, points) ==
    /\ Len(result) <= Len(points)
    /\ result = LastN(points, Len(result))

\* C6: after every AddDataPoint the series of each metric is at most
\* maxDataPoints long and is exactly the last min(n, maxDataPoints) of the n
\* samples appended to it, in insertion order, whatever their timestamps.
C6_LastAppendedRetained ==
    /\ DOMAIN buffers = DOMAIN appended
    /\ \A m \in DOMAIN buffers :
          /\ Len(buffers[m]) <= maxDataPoints
          /\ buffers[m] = LastN(appended[m], Min(Len(appended[m]), maxDataPoints))

\* An eviction has happened on a series whose timestamps are out of order.
C6_Witness ==
    \E m \in DOMAIN appended :
        /\ Len(appended[m]) > maxDataPoints
        /\ appended[m][1].Timestamp > appended[m][2].Timestamp
        /\ buffers[m][1] = appended[m][2]

\* C7: for duration > 0, every retained sample whose timestamp is
\* >= asOf - duration - 1s is in the result of GetDataPointsForDuration.
C7_AllInWindowReturned ==
    \A m \in DOMAIN buffers : \A d \in QueryDurations : \A asOf \in QueryTimes :
        Len(GetDataPointsForDuration(buffers, m, d, asOf))
            = Cardinality(IndicesFrom(buffers[m], asOf - d - WindowSlackSeconds * Second))

\* C8: for duration > 0, the result of GetDataPointsForDuration is a
\* subsequence of the stored series, non-decreasing in timestamp, with no
\* sample older than t - duration - 1s.
C8_WindowOrdered ==
    \A m \in DOMAIN buffers : \A d \in QueryDurations : \A t \in QueryTimes :
        LET result == GetDataPointsForDuration(buffers, m, d, t)
        IN  /\ IsSuffixOf(result, buffers[m])
            /\ NonDecreasing(result)
            /\ \A i \in 1..Len(result) :
                  result[i].Timestamp >= t - d - WindowSlackSeconds * Second

\* C9: GetDataPointsForDuration(m, 0, t) holds at most one element, the one
\* GetLatestDataPoint(m) returns (none exactly when it reports not found), and
\* does not depend on t.
C9_ZeroDurationIsLatest ==
    \A m \in Metrics : \A t \in QueryTimes :
        LET window == GetDataPointsForDuration(buffers, m, 0, t)
            latest == GetLatestDataPoint(buffers, m)
        IN  /\ Len(window) <= 1
            /\ latest.exists => window = <<latest.dp>>
            /\ ~latest.exists => window = <<>>
            /\ \A t2 \in QueryTimes : GetDataPointsForDuration(buffers, m, 0, t2) = window

\* One metric holds two different samples, the older one inside every window,
\* and the other metric was never appended.
C9_Witness ==
    /\ "cpu" \in DOMAIN buffers
    /\ "mem" \notin DOMAIN buffers
    /\ Len(buffers["cpu"]) = 2
    /\ buffers["cpu"][1] = DataPoint(MaxTs * Second, 1)
    /\ buffers["cpu"][2] = DataPoint(0, 0)

\* C10: for positive arguments the capacity is max(2, ceil(maxAge /
\* collectionInterval) + 1), and it never changes.
C10_CapacityIsCeil ==
    maxDataPoints = Max(MinDataPoints, Ceil(ctorMaxAge, ctorInterval) + 1)

-----------------------------------------------------------------------------
(* Claims about the rate calculations *)

\* The delta the rule of the network rates gives for one counter pair.
ExpectedDelta(prev, curr) ==
    IF curr >= prev THEN curr - prev ELSE (MaxUint64 - prev) + curr + 1

\* C11: for elapsed > 0, CalculateNetworkIORates returns delta / elapsed for
\* each direction, with delta = curr - prev, or (MaxUint64 - prev) + curr + 1
\* when curr < prev; an unchanged counter gives 0, the pair
\* (MaxUint64 - 1000, 2000) over one second gives 3001, and each result is the
\* same whatever the counters of the other direction are.
C11_NetworkRates ==
    (netRates # {} /\ elapsedMs > 0) =>
        /\ Returned(netRates).recvBytesPs =
               Rat(ExpectedDelta(prevStats[1], currStats[1]) * Second, elapsedMs)
        /\ Returned(netRates).sentBytesPs =
               Rat(ExpectedDelta(prevStats[2], currStats[2]) * Second, elapsedMs)
        /\ (prevStats[1] = currStats[1]) => Returned(netRates).recvBytesPs = ZeroValue
        /\ (prevStats[2] = currStats[2]) => Returned(netRates).sentBytesPs = ZeroValue
        /\ (prevStats[1] = MaxUint64 - 1000 /\ currStats[1] = 2000 /\ elapsedMs = 1 * Second)
               => Returned(netRates).recvBytesPs = <<3001, 1>>
        /\ \A p \in CounterValues, c \in CounterValues :
              /\ CalculateNetworkIORates(NetworkStats(<<prevStats[1], p>>),
                                         NetworkStats(<<currStats[1], c>>),
                                         elapsedMs).recvBytesPs = Returned(netRates).recvBytesPs
              /\ CalculateNetworkIORates(NetworkStats(<<p, prevStats[2]>>),
                                         NetworkStats(<<c, currStats[2]>>),
                                         elapsedMs).sentBytesPs = Returned(netRates).sentBytesPs

\* The received counter wrapped from MaxUint64 - 1000 to 2000 within a second.
C11_Witness ==
    /\ netRates # {}
    /\ elapsedMs = 1 * Second
    /\ prevStats[1] = MaxUint64 - 1000
    /\ currStats[1] = 2000
    /\ Returned(netRates).recvBytesPs = <<3001, 1>>

\* C12: for elapsed > 0, when the current sector counter is smaller than the
\* previous one, CalculateDiskIORates uses a delta of
\* (MaxUint64 - prev) + curr + 1 sectors, converted to bytes and divided by
\* elapsed, and each result is the same whatever the other counter pair is.
C12_DiskRatesWrapLikeNetwork ==
    (diskRates # {} /\ elapsedMs > 0) =>
        /\ (currStats[1] < prevStats[1]) =>
               Returned(diskRates).readBytesPs =
                   PerSecond((ExpectedDelta(prevStats[1], currStats[1]) * sectorSize) % Modulus,
                             elapsedMs)
        /\ (currStats[2] < prevStats[2]) =>
               Returned(diskRates).writeBytesPs =
                   PerSecond((ExpectedDelta(prevStats[2], currStats[2]) * sectorSize) % Modulus,
                             elapsedMs)
        /\ \A p \in CounterValues, c \in CounterValues :
              /\ CalculateDiskIORates(DiskStats(<<prevStats[1], p>>),
                                      DiskStats(<<currStats[1], c>>),
                                      elapsedMs).readBytesPs = Returned(diskRates).readBytesPs
              /\ CalculateDiskIORates(DiskStats(<<p, prevStats[2]>>),
                                      DiskStats(<<c, currStats[2]>>),
                                      elapsedMs).writeBytesPs = Returned(diskRates).writeBytesPs

-----------------------------------------------------------------------------
(* Claims about the alerter over the life of the service *)

\* C13: a rule that was active when the process stopped and whose condition is
\* met at its first evaluation after the restart emits no FIRED event (its
\* IsActive was seeded from the persisted map).
C13_NoRefireStep ==
    CycleStep =>
        \A i \in RuleIndices :
            ( /\ restarts > 0
              /\ rules[i].Name \in activeAtExit
              /\ ~lastCycle[i].seen
              /\ lastCycle'[i].outcome = "evaluated"
              /\ Evaluate(rules[i], PointsOf(rules[i], buffers', clock')).conditionMet )
            => \A k \in EventsOf(events', i) : events'[k].Type # "FIRED"

\* C13, over every step of every behaviour.
C13_NoRefireAfterRestart == [][C13_NoRefireStep]_vars

\* The set the call returns according to the rules' states.
ActiveRuleNames == {rules[i].Name : i \in {j \in RuleIndices : ruleState[j].IsActive}}

\* C14: a call of GetCurrentActiveAlerts returns exactly the names of the
\* rules whose IsActive is true, changes no rule state and emits no event.
C14_ProjectionStep ==
    (activeStates' # activeStates /\ activeStates' # {}) =>
        /\ \A names \in activeStates' :
              /\ \A i \in RuleIndices : ruleState[i].IsActive <=> rules[i].Name \in names
              /\ \A n \in names : \E i \in RuleIndices : rules[i].Name = n
        /\ UNCHANGED <<rules, ruleState, events, sent, lastType, prevType>>

\* C14, over every step of every behaviour.
C14_ActiveAlertsProjection == [][C14_ProjectionStep]_vars

\* The call returned a set with some rule in it and some rule left out.
C14_Witness ==
    /\ pc = "loop"
    /\ \E names \in activeStates :
          /\ names # {}
          /\ \E i \in RuleIndices : ruleState[i].IsActive /\ rules[i].Name \in names
          /\ \E i \in RuleIndices : ~ruleState[i].IsActive /\ rules[i].Name \notin names

-----------------------------------------------------------------------------
(* Claims about rules that cannot be evaluated *)

SkipOutcomes == {"no_points", "short_span", "no_latest", "error"}

\* C15: in a cycle that skips a rule (no sample, insufficient history or an
\* evaluation error) the skipped rule's state is unchanged, every rule,
\* before and after it in the list, is treated as its own iteration of the
\* loop treats it on the same buffer, and main stays in its loop for the next
\* cycle.
C15_SkipIsolatedStep ==
    (CycleStep /\ \E i \in RuleIndices : lastCycle'[i].outcome \in SkipOutcomes) =>
        /\ \A i \in RuleIndices :
              lastCycle'[i].outcome \in SkipOutcomes =>
                 /\ ruleState'[i] = ruleState[i]
                 /\ EventsOf(events', i) = {}
        /\ \A j \in RuleIndices :
              LET own == CheckRule(j, rules[j], ruleState[j], buffers', clock')
              IN  /\ lastCycle'[j].outcome = own.outcome
                  /\ ruleState'[j] = own.state
                  /\ Cardinality(EventsOf(events', j)) = Len(own.events)
        /\ pc' = "loop"

\* C15, over every step of every behaviour.
C15_SkipDoesNotAbort == [][C15_SkipIsolatedStep]_vars

\* The first rule of the list failed to evaluate in a cycle that fired a rule
\* declared after it, and a further cycle followed.
C15_Witness ==
    /\ lastCycle[1].outcome = "error"
    /\ \E j \in RuleIndices :
          /\ j > 1
          /\ lastCycle[j].outcome = "evaluated"
          /\ ruleState[j].IsActive
          /\ ruleState[j].LastActiveTime < clock
    /\ ticks >= 2

\* C16: Evaluate of an empty points fails with conditionMet false for every
\* rule, duration-based or instantaneous, and a cycle that finds no data for
\* a rule emits no event for it and leaves its state unchanged.
C16_NoDataStep ==
    /\ \A i \in RuleIndices :
          /\ Evaluate(rules[i], <<>>).err # "nil"
          /\ ~Evaluate(rules[i], <<>>).conditionMet
    /\ CycleStep =>
          \A i \in RuleIndices :
              PointsOf(rules[i], buffers', clock') = <<>> =>
                 /\ lastCycle'[i].outcome \in {"no_points", "no_latest"}
                 /\ EventsOf(events', i) = {}
                 /\ ruleState'[i] = ruleState[i]

\* C16, over every step of every behaviour.
C16_NoDataIsSkipped == [][C16_NoDataStep]_vars

\* A cycle found no data for an instantaneous and for a duration-based rule,
\* one of them active.
C16_Witness ==
    /\ ticks >= 1
    /\ \E i \in RuleIndices :
          /\ rules[i].Duration = 0
          /\ lastCycle[i].outcome = "no_latest"
    /\ \E i \in RuleIndices :
          /\ rules[i].Duration > 0
          /\ lastCycle[i].outcome = "no_points"
          /\ ruleState[i].IsActive

\* The comparison operators and the aggregations the specification lists.
ListedConditions == {">", "<", ">=", "<=", "=", "!="}
ListedAggregations == {"average", "max"}

\* A rule Evaluate has to reject: duration-based with an aggregation that is
\* not listed, or with a condition that is not listed.
Unevaluable(rule) ==
    \/ rule.Duration > 0 /\ ToLower(rule.Aggregation) \notin ListedAggregations
    \/ rule.Condition \notin ListedConditions

\* The points of the rule's metric a caller can hand to Evaluate in this
\* state: the window of the cycle and the whole retained series.
PointsAtHand(rule) ==
    {PointsOf(rule, buffers, clock)} \cup
    (IF rule.Metric \in DOMAIN buffers THEN {buffers[rule.Metric]} ELSE {})

\* C17: Evaluate fails for every duration-based rule whose aggregation is
\* neither average nor max and for every rule whose condition is not one of
\* the six operators, and a cycle emits no event for such a rule and leaves
\* its state unchanged.
C17_UnknownStep ==
    /\ \A i \in RuleIndices :
          Unevaluable(rules[i]) =>
              \A points \in PointsAtHand(rules[i]) : Evaluate(rules[i], points).err # "nil"
    /\ CycleStep =>
          \A i \in RuleIndices :
              Unevaluable(rules[i]) =>
                 /\ EventsOf(events', i) = {}
                 /\ ruleState'[i] = ruleState[i]
                 /\ lastCycle'[i].outcome # "evaluated"

\* C17, over every step of every behaviour.
C17_UnknownIsError == [][C17_UnknownStep]_vars

\* A cycle reached Evaluate with the rule without aggregation and with the
\* rule with the unknown condition, on a value for which an evaluable rule on
\* the same metric is active.
C17_Witness ==
    /\ \E i \in RuleIndices :
          /\ rules[i].Duration > 0
          /\ ToLower(rules[i].Aggregation) \notin ListedAggregations
          /\ lastCycle[i].outcome = "error"
    /\ \E i \in RuleIndices :
          /\ rules[i].Condition \notin ListedConditions
          /\ lastCycle[i].outcome = "error"
    /\ \E i \in RuleIndices : ~Unevaluable(rules[i]) /\ ruleState[i].IsActive

-----------------------------------------------------------------------------
(* Claims about configuration load and aggregation *)

\* C18: every rule LoadConfig accepts has a listed condition and, when its
\* duration is greater than zero, a listed aggregation, and evaluating it
\* never fails with UnknownAggregation or UnknownCondition.
C18_LoadRejectsUnknown ==
    loadResult.status = "accepted" =>
        /\ loadResult.rule.Condition \in ListedConditions
        /\ loadResult.rule.Duration > 0 =>
               ToLower(loadResult.rule.Aggregation) \in ListedAggregations
        /\ \A r \in evalResult : r.err \notin {"UnknownAggregation", "UnknownCondition"}

RECURSIVE TotalOf(_, _)
\* The sum of the values of the first n points.
TotalOf(points, n) == IF n = 0 THEN 0 ELSE TotalOf(points, n - 1) + points[n].Value

ValuesOf(points) == [i \in 1..Len(points) |-> points[i].Value]

\* C20: for a duration-based rule and a non-empty window the representative
\* value is the arithmetic mean of the window's values under average and
\* their maximum under max; [40, 50, 60] gives 50 and 60.
C20_AverageAndMax ==
    \A r \in evalResult :
        (loadResult.rule.Duration > 0 /\ Len(evalPoints) > 0) =>
            LET v == r.aggregatedValue
                n == Len(evalPoints)
            IN  /\ ToLower(loadResult.rule.Aggregation) = "average" =>
                      /\ v[2] > 0
                      /\ v[1] * n = v[2] * TotalOf(evalPoints, n)
                      /\ ValuesOf(evalPoints) = <<40, 50, 60>> => v = <<50, 1>>
                /\ ToLower(loadResult.rule.Aggregation) = "max" =>
                      /\ v[2] = 1
                      /\ \E k \in 1..n : evalPoints[k].Value = v[1]
                      /\ \A k \in 1..n : evalPoints[k].Value <= v[1]
                      /\ ValuesOf(evalPoints) = <<40, 50, 60>> => v = <<60, 1>>

\* A duration-based max rule evaluated over a window whose maximum is
\* neither its first nor its last value.
C20_Witness ==
    /\ evalResult # {}
    /\ loadResult.status = "accepted"
    /\ loadResult.rule.Duration > 0
    /\ loadResult.rule.Aggregation = "Max"
    /\ ValuesOf(evalPoints) = <<40, 60, 50>>
    /\ \A r \in evalResult : r.aggregatedValue = <<60, 1>> /\ r.err = "nil"

\* value <cond> threshold on integers, for the six listed operators.
Holds(cond, value, threshold) ==
    CASE cond = ">"  -> value > threshold
      [] cond = "<"  -> value < threshold
      [] cond = ">=" -> value >= threshold
      [] cond = "<=" -> value <= threshold
      [] cond = "="  -> value = threshold
      [] cond = "!=" -> value # threshold

\* C19: for a rule with duration 0 the value the cycle evaluates is the value
\* of the most recently appended sample of the rule's metric, whatever the
\* aggregation setting is, and conditionMet is that value compared with the
\* threshold.
C19_InstantUsesLatest ==
    \A i \in RuleIndices :
        (rules[i].Duration = 0 /\ LogLen(appended, rules[i].Metric) > 0) =>
            LET log == appended[rules[i].Metric]
                latestValue == log[Len(log)].Value
                points == PointsOf(rules[i], buffers, clock)
            IN  /\ Len(points) = 1
                /\ \A agg \in ConfigAggregations :
                      LET ev == Evaluate([rules[i] EXCEPT !.Aggregation = agg], points)
                      IN  /\ ev.aggregatedValue = <<latestValue, 1>>
                          /\ rules[i].Condition \in ListedConditions =>
                                /\ ev.err = "nil"
                                /\ ev.conditionMet <=>
                                      Holds(rules[i].Condition, latestValue, rules[i].Threshold)
                /\ (lastCycle[i].outcome = "evaluated" /\ EventsOf(events, i) # {}) =>
                      ruleState[i].LastValue = <<latestValue, 1>>

\* An instantaneous rule configured with an aggregation fired on the latest
\* sample of a series whose average and maximum are other values.
C19_Witness ==
    \E i \in RuleIndices :
        /\ rules[i].Duration = 0
        /\ rules[i].Aggregation = "average"
        /\ LogLen(appended, rules[i].Metric) >= 2
        /\ appended[rules[i].Metric][1].Value = 1
        /\ appended[rules[i].Metric][Len(appended[rules[i].Metric])].Value = 0
        /\ EventsOf(events, i) # {}
        /\ ruleState[i].IsActive
        /\ ruleState[i].LastValue = <<0, 1>>

\* The representative value of a non-empty points for a rule, as a pair
\* <<numerator, denominator>>: the latest value, the sum over the count, or
\* the greatest value.
Representative(rule, points) ==
    IF rule.Duration = 0 THEN <<points[Len(points)].Value, 1>>
    ELSE IF ToLower(rule.Aggregation) = "average" THEN <<TotalOf(points, Len(points)), Len(points)>>
    ELSE <<CHOOSE m \in {points[k].Value : k \in 1..Len(points)} :
               \A k \in 1..Len(points) : points[k].Value <= m, 1>>

\* num / den <cond> threshold for the six listed operators, by cross
\* multiplication: no rounding and no tolerance.
HoldsExactly(cond, num, den, threshold) ==
    CASE cond = ">"  -> num > threshold * den
      [] cond = "<"  -> num < threshold * den
      [] cond = ">=" -> ~(num < threshold * den)
      [] cond = "<=" -> ~(num > threshold * den)
      [] cond = "="  -> num = threshold * den
      [] cond = "!=" -> ~(num = threshold * den)

\* C21: when Evaluate succeeds, conditionMet is the representative value
\* compared with the threshold by the rule's operator, = and != exactly, and
\* the value returned is the representative value.
C21_ComparisonSemantics ==
    \A r \in evalResult :
        r.err = "nil" =>
            LET rule == loadResult.rule
                v == Representative(rule, evalPoints)
            IN  /\ rule.Condition \in ListedConditions
                /\ r.aggregatedValue[1] * v[2] = v[1] * r.aggregatedValue[2]
                /\ r.conditionMet <=> HoldsExactly(rule.Condition, v[1], v[2], rule.Threshold)

\* An average less than four units from the threshold compared with = and
\* found different.
C21_Witness ==
    /\ loadResult.status = "accepted"
    /\ loadResult.rule.Condition = "="
    /\ loadResult.rule.Duration > 0
    /\ ToLower(loadResult.rule.Aggregation) = "average"
    /\ ValuesOf(evalPoints) = <<50, 50, 40>>
    /\ \A r \in evalResult : r.err = "nil" /\ ~r.conditionMet
    /\ evalResult # {}

-----------------------------------------------------------------------------
(* Claims about the buffer under concurrent use *)

\* C22: under any interleaving of AddDataPoint, GetLatestDataPoint and
\* GetDataPointsForDuration calls, the series is the latest appends, each
\* once, in the order in which they were stored and never more than the
\* capacity, and every read that has returned holds the result of the read
\* on the map as it stood at some instant between the call and the return.
C22_ConcurrentSafe ==
    /\ DOMAIN buffers = DOMAIN appended
    /\ \A m \in DOMAIN buffers :
          /\ Len(buffers[m]) <= maxDataPoints
          /\ buffers[m] = LastN(appended[m], Min(Len(appended[m]), maxDataPoints))
    /\ \A p \in Goroutines :
          \A c \in proc[p].call :
              \A r \in proc[p].result :
                  \E bufs \in proc[p].snaps : r = ReadOf(c, bufs)

\* Three appends were stored while a window query was in progress, one of
\* them evicting a point, and the query returned what it found in between.
C22_Witness ==
    /\ "cpu" \in DOMAIN appended
    /\ Len(appended["cpu"]) = 4
    /\ \E c \in proc["reader"].call :
          /\ c.op = "GetDataPointsForDuration"
          /\ c.metric = "cpu"
          /\ Cardinality(proc["reader"].snaps) >= 3
          /\ \A r \in proc["reader"].result :
                /\ Len(r) = 2
                /\ \E bufs \in proc["reader"].snaps : r # ReadOf(c, bufs)

\* C23: a goroutine holds the buffer's lock only inside one AddDataPoint,
\* GetDataPointsForDuration or GetLatestDataPoint call: not between two calls
\* and not while a notifier's Send is executing, so that another goroutine's
\* append or query can take the lock while Send is blocked.
C23_LockScopedToCall ==
    \A p \in Goroutines :
        /\ proc[p].pc \in {"idle", "called", "sending"} =>
              p \notin mu.writer \cup mu.readers
        /\ proc[p].pc = "sending" =>
              \A q \in Goroutines \ {p} :
                  (mu.writer \cup mu.readers) \subseteq {p} =>
                      /\ (proc[q].pc = "idle" /\ proc[q].todo # <<>>
                            /\ CurrentCall(q).op = "AddDataPoint") => ENABLED AddLock(q)
                      /\ proc[q].pc = "called" => ENABLED ReadRLock(q)

\* Send is executing after the cycle's append and queries, while another
\* goroutine is inside AddDataPoint holding the lock.
C23_Witness ==
    /\ proc["main"].pc = "sending"
    /\ \E q \in Goroutines \ {"main"} : proc[q].pc = "loaded" /\ mu.writer = {q}

\* C28: a read of a metric that was never appended returns an empty
\* sequence, or not found, and no step of a read call changes the map or
\* creates a series.
C28_UnknownMetricStep ==
    \A p \in Goroutines :
        /\ (proc'[p].pc # proc[p].pc /\ proc'[p].pc \in {"called", "rlocked", "read"}) =>
              buffers' = buffers
        /\ (proc[p].pc = "read" /\ proc'[p].pc = "idle") =>
              /\ buffers' = buffers
              /\ CurrentCall(p).metric \notin DOMAIN appended =>
                    /\ CurrentCall(p).op = "GetDataPointsForDuration" =>
                          proc'[p].result = {<<>>}
                    /\ CurrentCall(p).op = "GetLatestDataPoint" =>
                          \A r \in proc'[p].result : ~r.exists
                    /\ CurrentCall(p).metric \notin DOMAIN buffers'

\* C28, over every step of every behaviour.
C28_UnknownMetricIsEmpty == [][C28_UnknownMetricStep]_vars

\* Both reads of the metric that was never appended have returned, on a map
\* that holds another metric.
C28_Witness ==
    /\ proc["reader"].todo = <<>>
    /\ proc["reader"].call = {LatestCall("nonexistent")}
    /\ \A r \in proc["reader"].result : ~r.exists
    /\ "cpu" \in DOMAIN buffers
    /\ "nonexistent" \notin DOMAIN buffers

-----------------------------------------------------------------------------
(* Claims about the capacity of the buffer *)

\* The samples of log that GetDataPointsForDuration(duration, now) selects.
InWindow(log, duration, now) ==
    { k \in 1..Len(log) : log[k].Timestamp >= now - duration - WindowSlackSeconds * Second }

\* C29: under regular sampling, with the capacity main computes from the
\* rules and the interval, every appended sample whose timestamp is still
\* inside the window (>= now - duration - 1s) of a configured rule is still
\* in the series: eviction removes none of them.
C29_EvictionKeepsWindow ==
    \A i \in RuleIndices :
        rules[i].Metric \in DOMAIN appended =>
            LET log == appended[rules[i].Metric]
                kept == LoadSeries(buffers, rules[i].Metric)
            IN  \A k \in InWindow(log, rules[i].Duration, clock) :
                    \E j \in 1..Len(kept) : kept[j] = log[k]

-----------------------------------------------------------------------------
(* Claims about a tick in which a collector fails *)

\* C25: when a collector fails in a tick, the map CollectAll returns holds
\* the metrics of the collectors that succeeded; the tick appends exactly
\* those, each at the tick's time, runs the evaluation on the buffer so
\* extended and goes back to the loop.  No tick appends a sample for an
\* earlier tick: a series grows by at most the sample of the current tick.
C25_PartialFailureStep ==
    CycleStep =>
        LET collected == tickState'.collected
        IN  /\ DOMAIN collected \subseteq Metrics
            /\ pc' = "loop"
            /\ \A name \in DOMAIN collected :
                  /\ name \in DOMAIN buffers'
                  /\ GetLatestDataPoint(buffers', name)
                        = [dp |-> DataPoint(clock', collected[name]), exists |-> TRUE]
                  /\ appended'[name]
                        = LoadSeries(appended, name) \o <<DataPoint(clock', collected[name])>>
            /\ \A name \in Metrics \ DOMAIN collected :
                  /\ LoadSeries(buffers', name) = LoadSeries(buffers, name)
                  /\ LoadSeries(appended', name) = LoadSeries(appended, name)
            /\ LET r == CheckAndNotify(rules, ruleState, buffers', clock')
               IN  /\ ruleState' = r.states
                   /\ events' = r.events
                   /\ \A i \in RuleIndices : lastCycle'[i].outcome = r.outcomes[i]

\* C25, over every step of every behaviour.
C25_PartialFailureTolerated == [][C25_PartialFailureStep]_vars

\* The CPU collector failed in the first tick and succeeded in the second:
\* the memory series has the samples of both ticks, the CPU series lacks
\* the one of the first tick, and a rule on the CPU metric was evaluated.
C25_Witness ==
    /\ ticks = 2
    /\ DOMAIN tickState.collected = Metrics
    /\ "cpu" \in DOMAIN appended
    /\ "mem" \in DOMAIN appended
    /\ Len(appended["mem"]) = 3
    /\ Len(appended["cpu"]) = 2
    /\ appended["cpu"][2].Timestamp = 2 * Second
    /\ \E i \in RuleIndices : rules[i].Metric = "cpu" /\ lastCycle[i].outcome = "evaluated"

-----------------------------------------------------------------------------
(* Claims about the shutdown *)

\* The samples of the tick in tickState are the latest of their series.
TickAppended ==
    \A name \in DOMAIN tickState.collected :
        GetLatestDataPoint(buffers, name)
            = [dp |-> DataPoint(clock, tickState.collected[name]), exists |-> TRUE]

C24_ShutdownStep ==
    /\ (pc # "done" /\ pc' = "done") =>
          /\ pc = "loop"
          /\ tickState.todo = {}
          /\ TickAppended
          /\ \A i \in RuleIndices : lastCycle[i].outcome # "none"
    /\ pc = "done" =>
          UNCHANGED <<buffers, appended, ruleState, events, sent, clock, ticks, tickState>>

\* C24: once a shutdown signal has been delivered the main loop exits; the
\* shutdown branch is taken at the select only, when every append of the
\* tick that was begun and its evaluation are done, and after it nothing is
\* collected, appended or evaluated.
C24_GracefulShutdown ==
    /\ [][C24_ShutdownStep]_vars
    /\ (shutdownSignal = 1) ~> (pc = "done")

\* The signal arrived while a tick with two metrics was being handled, and
\* main has returned with both samples appended.
C24_Witness ==
    /\ pc = "done"
    /\ tickState.signalled
    /\ DOMAIN tickState.collected = Metrics
    /\ tickState.todo = {}
    /\ TickAppended

-----------------------------------------------------------------------------
(* Claims about the collectors *)

ZeroNetworkRates == [recvBytesPs |-> ZeroValue, sentBytesPs |-> ZeroValue]

ZeroDiskRates == [readBytesPs |-> ZeroValue, writeBytesPs |-> ZeroValue]

RateMetrics ==
    [disk |-> {"disk_read_bytes_ps", "disk_write_bytes_ps"},
     net  |-> {"net_recv_bytes_ps", "net_sent_bytes_ps"}]

\* A step that is a call of CollectAll.
CollectStep == ticks' = ticks + 1

C26_ZeroRatesStep ==
    /\ elapsedMs <= 0 =>
          /\ \A r \in netRates' : r = ZeroNetworkRates
          /\ \A r \in diskRates' : r = ZeroDiskRates
    /\ CollectStep =>
          /\ (\/ gc.lastDiskStats = {}
              \/ gc.lastCollectTime = ZeroTime
              \/ clock' - gc.lastCollectTime <= MinElapsedMilliseconds * Millisecond) =>
                \A name \in RateMetrics.disk \cap DOMAIN allMetrics' :
                    allMetrics'[name] = ZeroValue
          /\ (\/ gc.lastNetworkStats = {}
              \/ gc.lastCollectTime = ZeroTime
              \/ clock' - gc.lastCollectTime <= MinElapsedMilliseconds * Millisecond) =>
                \A name \in RateMetrics.net \cap DOMAIN allMetrics' :
                    allMetrics'[name] = ZeroValue

\* C26: the disk and the network rate calculation return 0 in both directions
\* when the elapsed time is not positive, and CollectAll reports 0 for the
\* rates of a collector on that collector's first successful read and on any
\* call at most 0.1s after the call before.
C26_ZeroRatesWithoutElapsed == [][C26_ZeroRatesStep]_vars

\* The second CollectAll came 100ms after the first, read the disk and the
\* network counters and reported four rates of 0; both calculations were
\* called directly with an elapsed time that is not positive.
C26_Witness ==
    /\ ticks = 2
    /\ clock = 200 * Millisecond
    /\ gc.lastCollectTime = clock
    /\ snapTimes = [disk |-> clock, net |-> clock]
    /\ gc.lastDiskStats = {DiskStats(<<2, 1>>)}
    /\ gc.lastNetworkStats = {NetworkStats(<<2000, 1000>>)}
    /\ (RateMetrics.disk \cup RateMetrics.net) \subseteq DOMAIN allMetrics
    /\ \A name \in RateMetrics.disk \cup RateMetrics.net : allMetrics[name] = ZeroValue
    /\ elapsedMs <= 0
    /\ netRates = {ZeroNetworkRates}
    /\ diskRates = {ZeroDiskRates}

\* C27: every cpu_percent_total that CollectCPUStats returns lies between 0
\* and 100, whatever the counters before and the counters read.
C27_CPUPercentInRange ==
    "cpu_percent_total" \in DOMAIN allMetrics =>
        LET v == allMetrics["cpu_percent_total"]
        IN  /\ v[2] > 0
            /\ v[1] >= 0
            /\ v[1] <= 100 * v[2]

\* The total counter went back and the idle counter moved on by more than
\* the total: the percentage is at a cap.
C27_Witness ==
    /\ ticks = 2
    /\ currStats[1] < prevStats[1]
    /\ currStats[2] > prevStats[2]
    /\ "cpu_percent_total" \in DOMAIN allMetrics
    /\ allMetrics["cpu_percent_total"] \in {<<0, 1>>, <<100, 1>>}

C30_RateStep ==
    CollectStep =>
        /\ (RateMetrics.disk \subseteq DOMAIN allMetrics' /\ gc.lastDiskStats # {}
              /\ ElapsedUsable(ElapsedSince(gc.lastCollectTime, clock'))) =>
              LET r == CalculateDiskIORates(Returned(gc.lastDiskStats),
                                            Returned(gc'.lastDiskStats),
                                            clock' - snapTimes.disk)
              IN  /\ allMetrics'["disk_read_bytes_ps"] = r.readBytesPs
                  /\ allMetrics'["disk_write_bytes_ps"] = r.writeBytesPs
        /\ (RateMetrics.net \subseteq DOMAIN allMetrics' /\ gc.lastNetworkStats # {}
              /\ ElapsedUsable(ElapsedSince(gc.lastCollectTime, clock'))) =>
              LET r == CalculateNetworkIORates(Returned(gc.lastNetworkStats),
                                               Returned(gc'.lastNetworkStats),
                                               clock' - snapTimes.net)
              IN  /\ allMetrics'["net_recv_bytes_ps"] = r.recvBytesPs
                  /\ allMetrics'["net_sent_bytes_ps"] = r.sentBytesPs

\* C30: every disk and network rate CollectAll reports is the rate between
\* the two snapshots it compares over the time between the instants at which
\* those two snapshots were read, also when the read of the counter failed
\* in calls in between.
C30_RateOverSnapshotInterval == [][C30_RateStep]_vars

-----------------------------------------------------------------------------
(* Claims about the series of different metrics and the bounds of the window *)

\* Every element of result is a sample of log.
AllFrom(result, log) == \A i \in 1..Len(result) : \E k \in 1..Len(log) : result[i] = log[k]

C36_OtherSeriesStep ==
    \A m \in Metrics :
        LogLen(appended', m) = LogLen(appended, m) + 1 =>
            \A other \in Metrics \ {m} :
                /\ other \in DOMAIN buffers' <=> other \in DOMAIN buffers
                /\ LoadSeries(buffers', other) = LoadSeries(buffers, other)
                /\ \A d \in QueryDurations \cup {0} : \A t \in QueryTimes :
                      /\ GetDataPointsForDuration(buffers', other, d, t)
                            = GetDataPointsForDuration(buffers, other, d, t)
                      /\ AllFrom(GetDataPointsForDuration(buffers', other, d, t),
                                 LoadSeries(appended', other))
                /\ GetLatestDataPoint(buffers', other) = GetLatestDataPoint(buffers, other)

\* C36: AddDataPoint on a metric leaves the series of every other metric as
\* it was, and a query on another metric returns what it returned before,
\* all of it samples appended under that metric's name.
C36_AppendTouchesOneSeries == [][C36_OtherSeriesStep]_vars

\* Two metrics hold series of different lengths and different samples.
C36_Witness ==
    /\ DOMAIN buffers = Metrics
    /\ Len(buffers["cpu"]) = 2
    /\ Len(buffers["mem"]) = 1
    /\ buffers["cpu"][2] # buffers["mem"][1]
    /\ buffers["cpu"][1] # buffers["mem"][1]

\* C37: every point GetDataPointsForDuration returns has a Timestamp within
\* [now - duration, now].
C37_WindowWithinDuration ==
    \A m \in DOMAIN buffers : \A d \in QueryDurations : \A now \in QueryTimes :
        LET result == GetDataPointsForDuration(buffers, m, d, now)
        IN  \A i \in 1..Len(result) :
                /\ result[i].Timestamp >= now - d
                /\ result[i].Timestamp <= now

-----------------------------------------------------------------------------
(* Claims about the conversion of sectors to bytes *)

\* C39: for elapsed > 0, each rate CalculateDiskIORates returns is sectorSize
\* times the sector delta, as an integer that does not wrap at the width of
\* the counters, divided by the elapsed time.
C39_DiskBytesDoNotWrap ==
    (diskRates # {} /\ elapsedMs > 0) =>
        /\ Returned(diskRates).readBytesPs =
               Rat(SectorDelta(prevStats[1], currStats[1]) * sectorSize * Second, elapsedMs)
        /\ Returned(diskRates).writeBytesPs =
               Rat(SectorDelta(prevStats[2], currStats[2]) * sectorSize * Second, elapsedMs)

-----------------------------------------------------------------------------
(* Claims about collector instances *)

C38_OwnBaselineStep ==
    \A i \in CollectorInstances :
        (ticks' = ticks + 1 /\ instances'.caller = i
            /\ "cpu_percent_total" \in DOMAIN allMetrics') =>
            LET own == instances.of[i].own
                baseline == IF own = {} THEN <<0, 0>> ELSE Returned(own)
                elapsed == ElapsedSince(instances.of[i].gc.lastCollectTime, clock')
            IN  allMetrics'["cpu_percent_total"]
                    = CollectCPUStats(baseline, Returned(instances'.of[i].own),
                                      elapsed).metrics["cpu_percent_total"]

\* C38: the cpu_percent_total a GlobalCollector instance reports is the one
\* computed from the counters of that instance's own previous collection
\* (0 on its first), whatever another instance collected in between.
C38_BaselinePerInstance == [][C38_OwnBaselineStep]_vars

-----------------------------------------------------------------------------
(* Claims about cycles without new samples *)

\* The instantaneous rules whose metric gets no sample in the cycle being
\* taken, and which the cycle before evaluated.
NoNewSampleFor(i) ==
    /\ rules[i].Duration = 0
    /\ lastCycle[i].outcome = "evaluated"
    /\ rules[i].Metric \notin DOMAIN tickState'.collected
    /\ LogLen(appended', rules[i].Metric) = LogLen(appended, rules[i].Metric)

C35_NoNewSampleStep ==
    CycleStep =>
        \A i \in RuleIndices :
            NoNewSampleFor(i) =>
                /\ EventsOf(events', i) = {}
                /\ ruleState'[i] = ruleState[i]
                /\ lastCycle'[i].outcome = "evaluated"

\* C35: a cycle that appends no sample for the metric of an instantaneous
\* rule the previous cycle evaluated evaluates the rule again on the same
\* latest sample, emits no event for it and leaves its state as it was.
C35_NoEventWithoutNewSample == [][C35_NoNewSampleStep]_vars

\* An active instantaneous rule was evaluated in a tick whose collection
\* had no value for its metric.
C35_Witness ==
    \E i \in RuleIndices :
        /\ rules[i].Duration = 0
        /\ ticks >= 2
        /\ rules[i].Metric \notin DOMAIN tickState.collected
        /\ lastCycle[i].outcome = "evaluated"
        /\ lastCycle[i].wasActive
        /\ ruleState[i].IsActive
        /\ EventsOf(events, i) = {}

-----------------------------------------------------------------------------
(* Claims about notification *)

\* The Send calls of this CheckAndNotify without the errors they returned.
Attempts ==
    [k \in 1..Len(sent) |->
        [Rule |-> sent[k].Rule, State |-> sent[k].State, Channel |-> sent[k].Channel,
         Time |-> sent[k].Time, MetricValue |-> sent[k].MetricValue]]

IsPrefix(s, t) == Len(s) <= Len(t) /\ s = SubSeq(t, 1, Len(s))

\* C32: within one CheckAndNotify the rules are evaluated in declaration
\* order, the events are in declaration order of their rules with at most one
\* event per rule, Send is called for the events in that order, and no Send
\* is called before every rule has been through the loop.
C32_DeclarationOrder ==
    /\ proc.main.order = [k \in 1..Len(proc.main.order) |-> k]
    /\ \A k \in 1..Len(events) :
          \E j \in 1..Len(proc.main.order) : proc.main.order[j] = events[k].Rule
    /\ \A a, b \in 1..Len(events) : a < b => events[a].Rule < events[b].Rule
    /\ \A a, b \in 1..Len(sent) : a < b => sent[a].Rule <= sent[b].Rule
    /\ IsPrefix(Attempts, SendAll(rules, events, 1))
    /\ (pc = "sending" \/ sent # <<>>) => Len(proc.main.order) = Len(rules)

\* Send is in progress for the second event of a cycle, after a Send for the
\* first.
C32_Witness ==
    /\ pc = "sending"
    /\ Len(events) >= 2
    /\ proc.main.event = 2
    /\ sent # <<>>
    /\ sent[1].Rule = events[1].Rule

\* C33: whatever Send returns and whichever channels are not configured,
\* every configured channel of every event of the cycle gets its Send, in
\* order, the call returns to the loop of main, and the rules keep the state
\* their events announce: an event is emitted only on a change of IsActive.
C33_BestEffort ==
    /\ pc = "loop" => Attempts = SendAll(rules, events, 1)
    /\ pc \in {"send", "sending"} => IsPrefix(Attempts, SendAll(rules, events, 1))
    /\ \A k \in 1..Len(events) :
          /\ ruleState[events[k].Rule].IsActive = (events[k].Type = "FIRED")
          /\ lastCycle[events[k].Rule].wasActive = (events[k].Type = "RESOLVED")
    /\ \A i \in RuleIndices :
          (pc = "loop" /\ lastCycle[i].wasActive = ruleState[i].IsActive) =>
              EventsOf(events, i) = {}

\* The second CheckAndNotify has returned: a Send failed and a Send for a
\* later event followed, a channel that is not configured was followed by a
\* Send on the next channel, and a rule that fired in the first cycle is
\* still active with no event in this one.
C33_Witness ==
    /\ pc = "loop"
    /\ ticks = 2
    /\ \E a, b \in 1..Len(sent) :
          a < b /\ sent[a].err = "failed" /\ sent[a].Rule # sent[b].Rule
    /\ \E k \in 1..Len(sent) :
          /\ sent[k].Channel = "email"
          /\ rules[sent[k].Rule].Channels = <<"pager", "email">>
    /\ \E i \in RuleIndices :
          lastCycle[i].wasActive /\ ruleState[i].IsActive /\ EventsOf(events, i) = {}

\* C34: while a Send is in progress main does not hold a.mu, so that a
\* GetCurrentActiveAlerts waiting in a.mu.Lock() can take it.
C34_SendWithoutLock ==
    pc = "sending" =>
        /\ "main" \notin alerterMu
        /\ proc.saver.pc = "waiting" => MutexFree(alerterMu)

-----------------------------------------------------------------------------
(* Claims about rules that stay active *)

\* C31: with ticks going on for ever, every rule is, again and again, either
\* not active or evaluated in the latest cycle: no rule stays ACTIVE from
\* some cycle on without being evaluated.
C31_ActiveRuleReevaluated ==
    \A i \in {1, 2} :
        []<>(~ruleState[i].IsActive \/ lastCycle[i].outcome = "evaluated")

====
